---- MODULE Spec2Model ----
(***************************************************************************)
(* A model of the DigitalData Manager (src/src/js/ddm.js): the path        *)
(* addressed data tree (window._dd), the diff engine, the three listener   *)
(* registries with wildcard matching, the event log with dependency gated  *)
(* listeners and historical replay, and the TTL based persistence in       *)
(* localStorage.                                                           *)
(*                                                                         *)
(* Dot notated paths and patterns are sequences of segments; the segments  *)
(* of the model hold no dot, so that split('.') and join('.') are inverse  *)
(* to each other on them.  The empty sequence is the empty string "".      *)
(***************************************************************************)
EXTENDS Integers, Sequences, FiniteSets, TLC

(***************************************************************************)
(* VALUE MODEL.  Every JavaScript value of the model is a record of one    *)
(* shape: k is its kind, s the token of a scalar, m the properties of a   *)
(* plain object in insertion order (the order of for..in and of            *)
(* JSON.stringify), l the elements of an array.                            *)
(***************************************************************************)
Undef == [k |-> "undef", s |-> "", m |-> <<>>, l |-> <<>>]

Null == [k |-> "null", s |-> "", m |-> <<>>, l |-> <<>>]

Num(t) == [k |-> "num", s |-> t, m |-> <<>>, l |-> <<>>]

Str(t) == [k |-> "str", s |-> t, m |-> <<>>, l |-> <<>>]

Obj(pairs) == [k |-> "map", s |-> "", m |-> pairs, l |-> <<>>]

Arr(elems) == [k |-> "list", s |-> "", m |-> <<>>, l |-> elems]

Bool(b) == [k |-> "bool", s |-> IF b THEN "true" ELSE "false", m |-> <<>>, l |-> <<>>]

\* An object that holds a reference to itself (c = {}; c.self = c).  The
\* model passes it only as the whole value of a call, never inside another.
Cyclic == [k |-> "cyclic", s |-> "", m |-> <<>>, l |-> <<>>]

\* The outcome of an expression that raised a TypeError or a SyntaxError.
Thrown == [k |-> "throw", s |-> "", m |-> <<>>, l |-> <<>>]

EmptyObj == Obj(<<>>)

Pair(key, val) == [key |-> key, val |-> val]

isObject(v) == v.k = "map"

isArray(v) == v.k = "list"

\* obj.hasOwnProperty(key) for a plain object.
HasKey(v, key) == isObject(v) /\ \E i \in 1..Len(v.m) : v.m[i].key = key

KeyIndex(v, key) == CHOOSE i \in 1..Len(v.m) : v.m[i].key = key

\* The property read v[key].  Keys of the model are identifiers, so a read
\* on an array, a string, a number or a boolean yields undefined; a read on
\* null or undefined raises a TypeError.
Prop(v, key) ==
    IF v.k \in {"null", "undef", "throw"} THEN Thrown
    ELSE IF HasKey(v, key) THEN v.m[KeyIndex(v, key)].val
    ELSE Undef

\* The assignment obj[key] = val: an existing property keeps its place in
\* the insertion order, a new one is added last.
PutKey(v, key, val) ==
    IF HasKey(v, key)
    THEN Obj([v.m EXCEPT ![KeyIndex(v, key)] = Pair(key, val)])
    ELSE Obj(Append(v.m, Pair(key, val)))

\* delete obj[key]
DelKey(v, key) ==
    IF HasKey(v, key)
    THEN Obj(SubSeq(v.m, 1, KeyIndex(v, key) - 1) \o SubSeq(v.m, KeyIndex(v, key) + 1, Len(v.m)))
    ELSE v

Reverse(s) == [i \in 1..Len(s) |-> s[Len(s) + 1 - i]]

RECURSIVE JsonStringify(_)
\* JSON.stringify: undefined has no JSON text (the result is undefined, which
\* localStorage stores as the string "undefined", modelled by Undef); a
\* property whose value is undefined is left out, an undefined array element
\* becomes null; a cyclic structure raises a TypeError.
JsonStringify(v) ==
    IF v.k = "cyclic" THEN Thrown
    ELSE IF v.k = "map"
    THEN LET keep == SelectSeq(v.m, LAMBDA p : p.val.k # "undef")
         IN  Obj([i \in 1..Len(keep) |-> Pair(keep[i].key, JsonStringify(keep[i].val))])
    ELSE IF v.k = "list"
    THEN Arr([i \in 1..Len(v.l) |->
                 IF v.l[i].k = "undef" THEN Null ELSE JsonStringify(v.l[i])])
    ELSE v

\* JSON.parse: the text "undefined" is no JSON and raises a SyntaxError.
JsonParse(t) == IF t.k = "undef" THEN Thrown ELSE t

\* cloneObject raises: JSON.stringify does, inside the try block.
cloneObjectRaises(v) == v.k # "undef" /\ JsonStringify(v).k = "throw"

\* _d.cloneObject: the error of JSON.stringify is caught and reported, and
\* the function then returns nothing, that is undefined.
cloneObject(v) ==
    IF v.k = "undef" THEN Undef
    ELSE LET text == JsonStringify(v)
         IN  IF text.k = "throw" THEN Undef ELSE JsonParse(text)

(***************************************************************************)
(* PATH RESOLVER                                                           *)
(***************************************************************************)
RECURSIVE getObjectAtPath(_, _)
\* Line 1113 compares typeof obj with the value undefined, which never holds,
\* so obj is used as given: a call without obj walks from undefined.
getObjectAtPath(path, obj) ==
    IF path = <<>> THEN obj
    ELSE LET next == IF obj.k = "undef" THEN Undef ELSE Prop(obj, Head(path))
         IN  IF next.k = "throw" THEN Thrown
             ELSE IF Len(path) = 1 THEN next
             ELSE getObjectAtPath(Tail(path), next)

RECURSIVE mergeObjectsShallow(_, _, _)
\* A merge that is not recursive: every property of source replaces the
\* destination's property of that name, nested objects included.
mergeObjectsShallow(destination, source, i) ==
    IF i > Len(source.m) THEN destination
    ELSE mergeObjectsShallow(
             PutKey(destination, source.m[i].key, cloneObject(source.m[i].val)),
             source, i + 1)

RECURSIVE mergeObjectsFrom(_, _, _)
RECURSIVE mergeObjects(_, _)
\* The loop of mergeObjects over the properties of source, from property i.
mergeObjectsFrom(destination, source, i) ==
    IF i > Len(source.m) THEN destination
    ELSE LET property == source.m[i].key
             sv == source.m[i].val
             dv == Prop(destination, property)
             merged ==
                 IF isObject(sv)
                 THEN PutKey(destination, property,
                             mergeObjects(IF isObject(dv) THEN dv ELSE EmptyObj, sv))
                 ELSE PutKey(destination, property, cloneObject(sv))
         IN  mergeObjectsFrom(merged, source, i + 1)

mergeObjects(destination, source) ==
    IF isObject(source) THEN mergeObjectsFrom(destination, source, 1) ELSE destination

RECURSIVE setObjectAtPathIn(_, _, _)
\* The reduce of setObjectAtPath below the node prev, with value cloned.
setObjectAtPathIn(prev, path, value) ==
    LET cur == Head(path)
        old == Prop(prev, cur)
    IN  IF Len(path) = 1
        THEN IF isObject(old) /\ isObject(value)
             THEN PutKey(prev, cur, mergeObjects(old, value))
             ELSE PutKey(prev, cur, value)
        ELSE PutKey(prev, cur,
                    setObjectAtPathIn(IF isObject(old) THEN old ELSE EmptyObj,
                                      Tail(path), value))

\* The tree after setObjectAtPath(path, value) on the tree dd.
setObjectAtPath(dd, path, value) == setObjectAtPathIn(dd, path, cloneObject(value))

has(dd, path) == getObjectAtPath(path, dd).k # "undef"

(***************************************************************************)
(* DIFF ENGINE                                                             *)
(***************************************************************************)
RECURSIVE getDifferencesFrom(_, _, _, _)
\* The loop of _getDifferences over the properties of obj2, from property i;
\* the paths are pushed in the order of the walk.
getDifferencesFrom(obj1, obj2, path, i) ==
    IF i > Len(obj2.m) THEN <<>>
    ELSE LET prop == obj2.m[i].key
             v2 == obj2.m[i].val
             here == Append(path, prop)
             obj1Prop == IF isObject(obj1) /\ HasKey(obj1, prop) THEN Prop(obj1, prop) ELSE Undef
             found ==
                 IF isObject(v2)
                 THEN (IF obj1Prop.k = "undef" THEN <<here>> ELSE <<>>)
                      \o getDifferencesFrom(obj1Prop, v2, here, 1)
                 ELSE IF ~isObject(obj1) \/ JsonStringify(Prop(obj1, prop)) # JsonStringify(v2)
                      THEN <<here>>
                      ELSE <<>>
         IN  found \o getDifferencesFrom(obj1, obj2, path, i + 1)

\* _getDifferences(obj1, obj2): the paths of obj2 that differ from obj1.
getDifferencesOneWay(obj1, obj2) == getDifferencesFrom(obj1, obj2, <<>>, 1)

RECURSIVE KeepFirst(_, _)
\* s without the elements of seen and without repetitions, first occurrences kept.
KeepFirst(s, seen) ==
    IF s = <<>> THEN <<>>
    ELSE IF Head(s) \in seen THEN KeepFirst(Tail(s), seen)
    ELSE <<Head(s)>> \o KeepFirst(Tail(s), seen \cup {Head(s)})

\* getDifferences: both directions concatenated, then de-duplicated by a loop
\* that runs from the last entry to the first and pushes what it has not seen.
getDifferences(obj1, obj2) ==
    KeepFirst(Reverse(getDifferencesOneWay(obj1, obj2) \o getDifferencesOneWay(obj2, obj1)), {})

(***************************************************************************)
(* LISTENER REGISTRY.  A registry maps each registered pattern to its      *)
(* array of listener records.                                              *)
(***************************************************************************)
NoListeners == [p \in {} |-> <<>>]

\* A handler function given by the caller; fn names the function object.
Handler(fn) == [fn |-> fn, p |-> <<>>]

\* The closure persistenceListener created by persist(path).
Writer(path) == [fn |-> "persistenceListener", p |-> path]

\* The record pushed by registerListener; once is the property "once", absent
\* until a handler has returned true.
ListenerRecord(handler, hasDeps, dependsOn) ==
    [handler |-> handler, hasDeps |-> hasDeps, dependsOn |-> dependsOn, once |-> FALSE]

\* Line 1250 compares l[i], a listener record, with the handler function by
\* ===: an object literal created at line 1253 is never a caller's function.
ListenerIsHandler(rec, handler) == FALSE

\* The registry after registerListener(path, handler, listeners, dependsOn).
registerListener(listeners, path, handler, hasDeps, dependsOn) ==
    LET l == IF path \in DOMAIN listeners THEN listeners[path] ELSE <<>>
    IN  IF \E i \in 1..Len(l) : ListenerIsHandler(l[i], handler)
        THEN listeners
        ELSE [q \in DOMAIN listeners \cup {path} |->
                 IF q = path THEN Append(l, ListenerRecord(handler, hasDeps, dependsOn))
                 ELSE listeners[q]]

\* Whether registerListener returns true (the registration was done).
registerListenerDone(listeners, path, handler) ==
    LET l == IF path \in DOMAIN listeners THEN listeners[path] ELSE <<>>
    IN  ~\E i \in 1..Len(l) : ListenerIsHandler(l[i], handler)

RECURSIVE getListenersStarAnyDepth(_, _, _)
\* A matcher in which prev.* is also looked up before the last segment, so
\* that the single-level wildcard matches descendants at any depth.
getListenersStarAnyDepth(path, listenersToInspect, idx) ==
    IF idx > Len(path) THEN <<>>
    ELSE LET prev == SubSeq(path, 1, idx - 1)
             cur == path[idx]
             pStar == Append(prev, "*")
             pDeep == prev \o <<cur, "**">>
             pFull == Append(prev, cur)
             star == IF pStar \in DOMAIN listenersToInspect THEN <<pStar>> ELSE <<>>
             deep == IF idx < Len(path) /\ pDeep \in DOMAIN listenersToInspect
                     THEN <<pDeep>> ELSE <<>>
             full == IF idx = Len(path) /\ pFull \in DOMAIN listenersToInspect
                     THEN <<pFull>> ELSE <<>>
         IN  star \o deep \o full \o getListenersStarAnyDepth(path, listenersToInspect, idx + 1)

RECURSIVE getListenersDeepStarSelf(_, _, _)
\* A matcher in which prev.cur.** is also looked up at the last segment, so
\* that the multi-level wildcard matches its base path too.
getListenersDeepStarSelf(path, listenersToInspect, idx) ==
    IF idx > Len(path) THEN <<>>
    ELSE LET prev == SubSeq(path, 1, idx - 1)
             cur == path[idx]
             pStar == Append(prev, "*")
             pDeep == prev \o <<cur, "**">>
             pFull == Append(prev, cur)
             star == IF idx = Len(path) /\ pStar \in DOMAIN listenersToInspect
                     THEN <<pStar>> ELSE <<>>
             deep == IF pDeep \in DOMAIN listenersToInspect THEN <<pDeep>> ELSE <<>>
             full == IF idx = Len(path) /\ pFull \in DOMAIN listenersToInspect
                     THEN <<pFull>> ELSE <<>>
         IN  star \o deep \o full \o getListenersDeepStarSelf(path, listenersToInspect, idx + 1)

RECURSIVE getListenersFrom(_, _, _)
\* The reduce of getListeners over the segments of path, from segment idx:
\* at the last segment the patterns prev.* and the full path, before it the
\* pattern prev.cur.**.
getListenersFrom(path, listenersToInspect, idx) ==
    IF idx > Len(path) THEN <<>>
    ELSE LET prev == SubSeq(path, 1, idx - 1)
             cur == path[idx]
             pStar == IF idx = Len(path) THEN Append(prev, "*") ELSE prev \o <<cur, "**">>
             pFull == Append(prev, cur)
             star == IF pStar \in DOMAIN listenersToInspect THEN <<pStar>> ELSE <<>>
             full == IF idx = Len(path) /\ pFull \in DOMAIN listenersToInspect
                     THEN <<pFull>> ELSE <<>>
         IN  star \o full \o getListenersFrom(path, listenersToInspect, idx + 1)

\* getListeners: the registered patterns that match path, deepest first.  The
\* handlers of an entry are the registry's own array for that pattern.
getListeners(path, listenersToInspect) ==
    Reverse((IF <<"**">> \in DOMAIN listenersToInspect THEN << <<"**">> >> ELSE <<>>)
            \o getListenersFrom(path, listenersToInspect, 1))

\* A registration that reads the value at the pattern as written.
StripWildcardKeepsSuffix(pattern) == pattern
\* path.replace(/\.?\*\*?$/, ""): the pattern without its wildcard suffix.
StripWildcard(pattern) ==
    IF pattern # <<>> /\ pattern[Len(pattern)] \in {"*", "**"}
    THEN SubSeq(pattern, 1, Len(pattern) - 1)
    ELSE pattern

(***************************************************************************)
(* HANDLERS.  A handler is a function of the caller; the model's handlers  *)
(* do not call back into the engine.  "h2" and its twin return true (the   *)
(* fire-once signal) on every call; "h3" throws an Error object and "h4"   *)
(* throws null on every call; the other handlers return nothing.           *)
(***************************************************************************)
TrueHandlers == {"h2", "h2twin"}

ThrowHandlers == {"h3", "h4"}

NullThrowers == {"h4"}

ReturnsTrue(handler) == handler.fn \in TrueHandlers

Throws(handler) == handler.fn \in ThrowHandlers

\* handleError(error, ...) reads error.message (line 467): with a thrown
\* null or undefined that read raises a TypeError inside the catch block
\* that called handleError, and the error leaves the dispatch loops.
handleErrorRaises(handler) == handler.fn \in NullThrowers

\* An invocation of a handler: through which registry, pattern and record
\* (idx 0: the direct call of change() at registration), whether it
\* returned true, and its argument (a value, or the index of an event).
Invocation(reg, pat, idx, handler, val, ev) ==
    [reg |-> reg, pat |-> pat, idx |-> idx, handler |-> handler,
     ret |-> ReturnsTrue(handler), val |-> val, ev |-> ev]

(***************************************************************************)
(* EXTERNAL STORE.  localStorage, assumed available: val holds the value   *)
(* keys dd_p_<path>, exp the expiry keys dd_p_exp_<path>, both by path.    *)
(* Time is in milliseconds since the first load of the page.               *)
(***************************************************************************)
MsPerMinute == 60000

DefaultTtl == 30

EmptyStorage == [val |-> [p \in {} |-> Undef], exp |-> [p \in {} |-> 0]]

SetItem(f, key, v) == [q \in DOMAIN f \cup {key} |-> IF q = key THEN v ELSE f[q]]

RemoveItem(f, key) == [q \in DOMAIN f \ {key} |-> f[q]]

\* _persist(key, value, ttl) at time t: store the value and its expiry, or
\* remove both keys when the expiry is not in the future.
persistValue(stor, key, value, ttl, t) ==
    LET expiresValue == t + ttl * MsPerMinute
    IN  IF t < expiresValue
        THEN [val |-> SetItem(stor.val, key, JsonStringify(value)),
              exp |-> SetItem(stor.exp, key, expiresValue)]
        ELSE [val |-> RemoveItem(stor.val, key), exp |-> RemoveItem(stor.exp, key)]

\* _unpersist(key): _persist with a TTL of 0.
unpersistValue(stor, key, t) == persistValue(stor, key, Null, 0, t)

(***************************************************************************)
(* DISPATCHER                                                              *)
(***************************************************************************)
RECURSIVE PatternsFrom(_, _, _)
\* The patterns getListeners yields for differences[d], differences[d+1], ...
PatternsFrom(listenerSet, differences, d) ==
    IF d > Len(differences) THEN <<>>
    ELSE getListeners(differences[d], listenerSet)
         \o PatternsFrom(listenerSet, differences, d + 1)

\* An order in which a pattern is invoked for every changed path it matches.
InvokeOrderPerPath(listenerSet, prev, cur) ==
    PatternsFrom(listenerSet, Reverse(getDifferences(prev, cur)), 1)
\* The patterns a round invokes, in the order it invokes them: the
\* differences reversed, each pattern only at its first match (invokedListeners).
InvokeOrder(listenerSet, prev, cur) ==
    KeepFirst(PatternsFrom(listenerSet, Reverse(getDifferences(prev, cur)), 1), {})

RECURSIVE Visits(_, _)
\* The listener records of the patterns pats, in the order of the loops.
Visits(listenerSet, pats) ==
    IF pats = <<>> THEN <<>>
    ELSE [h \in 1..Len(listenerSet[Head(pats)]) |-> [pat |-> Head(pats), idx |-> h]]
         \o Visits(listenerSet, Tail(pats))

\* The argument of a change handler: the current value at the base path.
ChangeArgument(pat, cur) == getObjectAtPath(StripWildcard(pat), cur)

\* A dispatch that does not look at the "once" mark of the record.
ChangeCalledDespiteOnce(rec, pat, cur) == ChangeArgument(pat, cur).k # "throw"

\* Line 1196: the handler is called unless the record is marked "once" or
\* reading its argument raises.
ChangeCalled(rec, pat, cur) == ~rec.once /\ ChangeArgument(pat, cur).k # "throw"

\* The call of this visit raises out of the loops of the round.
VisitEscapes(listenerSet, v, cur) ==
    /\ ChangeCalled(listenerSet[v.pat][v.idx], v.pat, cur)
    /\ handleErrorRaises(listenerSet[v.pat][v.idx].handler)

RECURSIVE UntilEscape(_, _, _)
\* The visits that take place: all of them, or those up to the first call
\* whose error leaves the loops.
UntilEscape(listenerSet, vs, cur) ==
    IF vs = <<>> THEN <<>>
    ELSE IF VisitEscapes(listenerSet, Head(vs), cur) THEN <<Head(vs)>>
    ELSE <<Head(vs)>> \o UntilEscape(listenerSet, Tail(vs), cur)

RoundVisits(listenerSet, prev, cur) ==
    UntilEscape(listenerSet, Visits(listenerSet, InvokeOrder(listenerSet, prev, cur)), cur)

\* An error left the loops of the round.
roundEscapes(listenerSet, prev, cur) ==
    LET vs == RoundVisits(listenerSet, prev, cur)
    IN  vs # <<>> /\ VisitEscapes(listenerSet, vs[Len(vs)], cur)

\* invokeChangeListenersForListenerSet on the property listeners: the records
\* whose handler returned true are marked "once".
propertyListenersAfterRound(listenerSet, prev, cur) ==
    LET vs == RoundVisits(listenerSet, prev, cur)
        hit(p, h) == \E i \in 1..Len(vs) : vs[i].pat = p /\ vs[i].idx = h
    IN  [p \in DOMAIN listenerSet |->
            [h \in 1..Len(listenerSet[p]) |->
                LET rec == listenerSet[p][h]
                IN  IF hit(p, h) /\ ChangeCalled(rec, p, cur) /\ ReturnsTrue(rec.handler)
                    THEN [rec EXCEPT !.once = TRUE]
                    ELSE rec]]

RECURSIVE InvocationsOf(_, _, _, _)
\* The handler calls of a round over the visits vs, in order.
InvocationsOf(reg, listenerSet, vs, cur) ==
    IF vs = <<>> THEN <<>>
    ELSE LET v == Head(vs)
             rec == listenerSet[v.pat][v.idx]
         IN  (IF ChangeCalled(rec, v.pat, cur)
              THEN <<Invocation(reg, v.pat, v.idx, rec.handler, ChangeArgument(v.pat, cur), 0)>>
              ELSE <<>>)
             \o InvocationsOf(reg, listenerSet, Tail(vs), cur)

roundInvocations(reg, listenerSet, prev, cur) ==
    InvocationsOf(reg, listenerSet, RoundVisits(listenerSet, prev, cur), cur)

\* A round that reports no handler as invoked.
invokedFunctionsForgotten(listenerSet, prev, cur) == {}
\* invokedFunctions (line 1204): the handler of every visited record, called or not.
invokedFunctions(listenerSet, prev, cur) ==
    LET vs == RoundVisits(listenerSet, prev, cur)
    IN  {listenerSet[vs[i].pat][vs[i].idx].handler :
            i \in {j \in 1..Len(vs) : ~VisitEscapes(listenerSet, vs[j], cur)}}

\* The handleError reports of a round: a record not marked once whose
\* argument could not be read or whose handler threw an Error.
roundErrors(listenerSet, prev, cur) ==
    LET vs == RoundVisits(listenerSet, prev, cur)
        bad == SelectSeq(vs, LAMBDA v :
                   /\ ~listenerSet[v.pat][v.idx].once
                   /\ \/ ChangeArgument(v.pat, cur).k = "throw"
                      \/ /\ Throws(listenerSet[v.pat][v.idx].handler)
                         /\ ~handleErrorRaises(listenerSet[v.pat][v.idx].handler))
    IN  [i \in 1..Len(bad) |-> "listener-changehandler"]

RECURSIVE storageAfterWriters(_, _, _, _, _, _)
\* The persistence listeners of a round write, in order: each is the closure
\* of persist(path) and calls _persist(path, data, _pathsToPersist[path]).
storageAfterWriters(stor, listenerSet, vs, table, cur, t) ==
    IF vs = <<>> THEN stor
    ELSE LET v == Head(vs)
             rec == listenerSet[v.pat][v.idx]
             key == rec.handler.p
             ttl == IF key \in DOMAIN table THEN table[key] ELSE DefaultTtl
             next == IF ChangeCalled(rec, v.pat, cur)
                     THEN persistValue(stor, key, ChangeArgument(v.pat, cur), ttl, t)
                     ELSE stor
         IN  storageAfterWriters(next, listenerSet, Tail(vs), table, cur, t)

storageAfterRound(stor, listenerSet, table, prev, cur, t) ==
    storageAfterWriters(stor, listenerSet, RoundVisits(listenerSet, prev, cur), table, cur, t)

(***************************************************************************)
(* PERSISTENCE SYNCHRONIZER: the parts of persist(path, ttl)               *)
(***************************************************************************)
\* Lines 714-722: the two persistence listeners, unless the path is tracked.
persistListeners(listenerSet, table, path) ==
    IF path \in DOMAIN table THEN listenerSet
    ELSE registerListener(
             registerListener(listenerSet, path, Writer(path), FALSE, <<>>),
             Append(path, "**"), Writer(path), FALSE, <<>>)

\* Lines 727-729: "persist the current value if it exists".  getObjectAtPath
\* is called without its second argument, so it walks from undefined.
persistCurrent(stor, path, ttl, t) ==
    IF getObjectAtPath(path, Undef).k # "undef"
    THEN persistValue(stor, path, getObjectAtPath(path, Undef), ttl, t)
    ELSE stor

(***************************************************************************)
(* window._ddm.  Before the engine script runs the page may have put a     *)
(* stand-in there: the documented mini version with an events array and a  *)
(* trigger function, or an object with the arrays l and e that hold the    *)
(* arguments of the listen and trigger calls made so far.  Initialisation  *)
(* (lines 1612-1644) looks at it and, at its end, replaces it by the       *)
(* engine object _d.                                                       *)
(***************************************************************************)
Ddm(kind, stubEvents, l, e) == [kind |-> kind, events |-> stubEvents, l |-> l, e |-> e]

NoDdm == Ddm("none", <<>>, <<>>, <<>>)

Engine == Ddm("engine", <<>>, <<>>, <<>>)

MiniStub == Ddm("mini", <<>>, <<>>, <<>>)

RichStub == Ddm("rich", <<>>, <<>>, <<>>)

(***************************************************************************)
(* OBJECT IDENTITY.  The values of the model carry no identity; where it   *)
(* matters whether two references name one object, the reference is        *)
(* followed through the code: "arg" is the object the page passed in,      *)
(* "node" the node of the tree at the path, "fresh" an object made by the  *)
(* call.  The page holds one object, val, and at says where in the tree    *)
(* this very object is linked: location [path, idx] is the node at path    *)
(* (idx 0) or the element idx of the array at path.                        *)
(***************************************************************************)
RECURSIVE replaceAt(_, _, _)
\* The tree in which the node at path reads v.
replaceAt(node, path, v) ==
    IF path = <<>> THEN v
    ELSE PutKey(node, Head(path), replaceAt(Prop(node, Head(path)), Tail(path), v))

\* The tree in which the object linked at loc reads v.
linkedAt(tree, loc, v) ==
    IF loc.idx = 0 THEN replaceAt(tree, loc.path, v)
    ELSE replaceAt(tree, loc.path,
                   Arr([getObjectAtPath(loc.path, tree).l EXCEPT ![loc.idx] = v]))

\* A clone that hands back its argument.
cloneObjectRefSame(r) == r

\* cloneObject: JSON.parse builds a new object.
cloneObjectRef(r) == "fresh"

\* setObjectAtPath: what is linked at the path is cloneObject(value).
setObjectAtPathRef(r) == cloneObjectRef(r)

\* get: the result is cloneObject(v) of the node v.
getRef(r) == cloneObjectRef(r)

\* push of a value that is no array: [cloneObject(value)] is concatenated
\* and handed to setObjectAtPath.
pushRef(r) == setObjectAtPathRef(cloneObjectRef(r))

Location(path, idx) == [path |-> path, idx |-> idx]

\* via names the call the object went through: "set", "push" or "get".
Held(val, at, via) == [val |-> val, at |-> at, via |-> via]

NothingHeld == Held(Undef, {}, "")

\* The object held after it went through a call as reference r and came out
\* linked at loc as reference out: it is linked there when out is r.
heldAfter(val, r, out, loc, via) ==
    Held(val, IF out = r /\ val.k \in {"map", "list"} THEN {loc} ELSE {}, via)

(***************************************************************************)
(* STATE                                                                   *)
(***************************************************************************)
VARIABLES
    dd,                    \* window._dd, the data tree
    prev_dd,               \* _prev_dd, the snapshot taken before a mutation
    propertyListeners,     \* _propertyListeners
    persistenceListeners,  \* _persistenceListeners
    eventListeners,        \* _eventListeners
    pathsToPersist,        \* _pathsToPersist: path -> TTL in minutes
    events,                \* _d.events, the event log
    storage,               \* localStorage
    now,                   \* new Date().getTime()
    op,                    \* the call that led to this state
    fired,                 \* the handler calls made by that call, in order
    errs,                  \* the errors it reported or raised
    hist,                  \* what the observed handlers were delivered over the calls so far
    window_ddm,            \* window._ddm: the engine, or what the page put there
    ret,                   \* what the call returned to the page
    held                   \* the object the page last passed in or got back

vars == <<dd, prev_dd, propertyListeners, persistenceListeners, eventListeners,
          pathsToPersist, events, storage, now, op, fired, errs, hist, window_ddm, ret, held>>

Call(name, path, value, fn, flag, n) ==
    [name |-> name, path |-> path, value |-> value, fn |-> fn, flag |-> flag, n |-> n]

\* What a call gives back: its return value, or the error it raised when
\* one reached the caller.
returnOr(e, value) == IF \E i \in 1..Len(e) : e[i] = "uncaught" THEN Thrown ELSE value

\* The engine after a first load: empty tree, registries, log and store.
Init ==
    /\ dd = EmptyObj
    /\ prev_dd = EmptyObj
    /\ propertyListeners = NoListeners
    /\ persistenceListeners = NoListeners
    /\ eventListeners = NoListeners
    /\ pathsToPersist = [p \in {} |-> 0]
    /\ events = <<>>
    /\ storage = EmptyStorage
    /\ now = 0
    /\ op = Call("load", <<>>, Undef, "", FALSE, 0)
    /\ fired = <<>>
    /\ errs = <<>>
    /\ hist = <<>>
    /\ window_ddm = Engine
    /\ ret = Undef
    /\ held = NothingHeld

(***************************************************************************)
(* MUTATIONS                                                               *)
(***************************************************************************)
\* invokeChangeListeners raises: an error left the round of the persistence
\* listeners or that of the property listeners.
changeListenersEscape(pl, prev, cur) ==
    roundEscapes(pl, prev, cur) \/ roundEscapes(propertyListeners, prev, cur)

\* A round that invokes the property listeners before the persistence
\* listeners.
ChangeRoundPropertyFirst(prev, cur, pl, table, stor, raised, before) ==
    /\ storage' = storageAfterRound(stor, pl, table, prev, cur, now)
    /\ propertyListeners' = propertyListenersAfterRound(propertyListeners, prev, cur)
    /\ fired' = roundInvocations("property", propertyListeners, prev, cur)
                \o roundInvocations("persistence", pl, prev, cur)
    /\ errs' = before \o roundErrors(propertyListeners, prev, cur) \o roundErrors(pl, prev, cur)
               \o (IF changeListenersEscape(pl, prev, cur) THEN raised ELSE <<>>)
\* invokeChangeListeners: the persistence listeners, then the property
\* listeners, both against the differences of prev and cur.  raised is what
\* the caller makes of an error that leaves the rounds, before the errors
\* reported before the rounds began.
ChangeRound(prev, cur, pl, table, stor, raised, before) ==
    LET first == roundEscapes(pl, prev, cur)
    IN  /\ storage' = storageAfterRound(stor, pl, table, prev, cur, now)
        /\ propertyListeners' = IF first THEN propertyListeners
                                ELSE propertyListenersAfterRound(propertyListeners, prev, cur)
        /\ fired' = roundInvocations("persistence", pl, prev, cur)
                    \o (IF first THEN <<>>
                        ELSE roundInvocations("property", propertyListeners, prev, cur))
        /\ errs' = before
                   \o roundErrors(pl, prev, cur)
                   \o (IF first THEN <<>> ELSE roundErrors(propertyListeners, prev, cur))
                   \o (IF changeListenersEscape(pl, prev, cur) THEN raised ELSE <<>>)

\* _ddm.set(path, value, persist, ttl)
Set(path, value, persist, ttl) ==
    LET prev == cloneObject(dd)
        pl == IF persist THEN persistListeners(persistenceListeners, pathsToPersist, path)
              ELSE persistenceListeners
        table == IF persist THEN SetItem(pathsToPersist, path, ttl) ELSE pathsToPersist
        stor == IF persist THEN persistCurrent(storage, path, ttl, now) ELSE storage
        cur == setObjectAtPath(dd, path, value)
    IN  /\ prev_dd' = prev
        /\ persistenceListeners' = pl
        /\ pathsToPersist' = table
        /\ dd' = cur
        /\ ChangeRound(prev, cur, pl, table, stor, <<"uncaught">>,
                       IF cloneObjectRaises(value) THEN <<"cloneObject">> ELSE <<>>)
        /\ op' = Call("set", path, value, "", persist, ttl)
        /\ ret' = returnOr(errs', value)
        /\ UNCHANGED <<eventListeners, events, now>>

RECURSIVE deleteAtPath(_, _)
\* Lines 141-148: delete the last segment's property from its parent object.
deleteAtPath(node, path) ==
    IF Len(path) = 1 THEN DelKey(node, Head(path))
    ELSE PutKey(node, Head(path), deleteAtPath(Prop(node, Head(path)), Tail(path)))

\* _ddm.erase(path).  has(path) is evaluated outside the try block: a
\* TypeError of getObjectAtPath reaches the caller.
Erase(path) ==
    LET found == getObjectAtPath(path, dd)
        prev == cloneObject(dd)
        cur == deleteAtPath(dd, path)
    IN  /\ op' = Call("erase", path, Undef, "", FALSE, 0)
        /\ UNCHANGED <<eventListeners, events, now, persistenceListeners, pathsToPersist>>
        /\ IF found.k = "throw"
           THEN /\ errs' = <<"uncaught">>
                /\ fired' = <<>>
                /\ UNCHANGED <<dd, prev_dd, propertyListeners, storage>>
           ELSE IF found.k = "undef"
           THEN /\ errs' = <<>>
                /\ fired' = <<>>
                /\ UNCHANGED <<dd, prev_dd, propertyListeners, storage>>
           ELSE /\ prev_dd' = prev
                /\ dd' = cur
                /\ ChangeRound(prev, cur, persistenceListeners, pathsToPersist, storage,
                               <<"delete">>, <<>>)
        /\ ret' = returnOr(errs', Undef)

\* A push that always adds the value as one element.
pushedArrayAsElement(a, value) ==
    Arr((IF isArray(a) THEN a.l ELSE <<>>) \o <<cloneObject(value)>>)

\* Lines 193-197 of push: the array handed to setObjectAtPath, a being what
\* get(path) returned.
pushedArray(a, value) ==
    IF isArray(a)
    THEN Arr(a.l \o (IF isArray(value) THEN value.l ELSE <<cloneObject(value)>>))
    ELSE Arr(<<cloneObject(value)>>)

\* _ddm.push(path, value): the whole body is in a try block, its catch
\* reports to handleError and returns nothing.
Push(path, value) ==
    LET prev == cloneObject(dd)
        found == getObjectAtPath(path, dd)
        a == cloneObject(found)
        cur == setObjectAtPath(dd, path, pushedArray(a, value))
    IN  /\ op' = Call("push", path, value, "", FALSE, 0)
        /\ prev_dd' = prev
        /\ UNCHANGED <<eventListeners, events, now, persistenceListeners, pathsToPersist>>
        /\ IF found.k = "throw"
           THEN /\ errs' = <<"push">>
                /\ fired' = <<>>
                /\ ret' = Undef
                /\ UNCHANGED <<dd, propertyListeners, storage>>
           ELSE /\ dd' = cur
                /\ ChangeRound(prev, cur, persistenceListeners, pathsToPersist, storage,
                               <<"push">>, <<>>)
                /\ ret' = IF changeListenersEscape(persistenceListeners, prev, cur)
                          THEN Undef ELSE a

\* _ddm.get(path): a clone of the value at the path.  There is no try block:
\* a TypeError of getObjectAtPath reaches the caller.
Get(path) ==
    LET v == getObjectAtPath(path, dd)
    IN  /\ op' = Call("get", path, Undef, "", FALSE, 0)
        /\ errs' = IF v.k = "throw" THEN <<"uncaught">> ELSE <<>>
        /\ ret' = returnOr(errs', cloneObject(v))
        /\ fired' = <<>>
        /\ UNCHANGED <<dd, prev_dd, propertyListeners, persistenceListeners, eventListeners,
                       pathsToPersist, events, storage, now>>

\* _ddm.change(path, onlyInvokeOnChanges, handler): register, then call the
\* handler with the value at the base path when there is one.  The call is
\* made directly, its return value is dropped; an error of reading the value
\* or of the handler is caught and reported by the outer catch.
Change(path, onlyInvokeOnChanges, fn) ==
    LET done == registerListenerDone(propertyListeners, path, Handler(fn))
        v == getObjectAtPath(StripWildcard(path), dd)
        called == done /\ ~onlyInvokeOnChanges /\ v.k \notin {"undef", "throw"}
    IN  /\ propertyListeners' = registerListener(propertyListeners, path, Handler(fn), FALSE, <<>>)
        /\ fired' = IF called
                    THEN <<Invocation("property", path, 0, Handler(fn), v, 0)>>
                    ELSE <<>>
        /\ errs' = IF done /\ ~onlyInvokeOnChanges /\ v.k = "throw" THEN <<"change">>
                   ELSE IF called /\ handleErrorRaises(Handler(fn)) THEN <<"uncaught">>
                   ELSE IF called /\ Throws(Handler(fn)) THEN <<"change">>
                   ELSE <<>>
        /\ op' = Call("change", path, Undef, fn, onlyInvokeOnChanges, 0)
        /\ ret' = returnOr(errs', Undef)
        /\ UNCHANGED <<dd, prev_dd, persistenceListeners, eventListeners, pathsToPersist,
                       events, storage, now>>

\* The number of listener records of a registry.
RECURSIVE SumLen(_, _)
SumLen(listenerSet, pats) ==
    IF pats = {} THEN 0
    ELSE LET p == CHOOSE q \in pats : TRUE
         IN  Len(listenerSet[p]) + SumLen(listenerSet, pats \ {p})

RecordCount(listenerSet) == SumLen(listenerSet, DOMAIN listenerSet)

(***************************************************************************)
(* EVENT TRIGGER AND REPLAY.  An event object is the caller's payload      *)
(* object when there is one, else a new object.  ref names a payload       *)
(* object the caller keeps and may pass again (0: an object of its own),   *)
(* dd is its "dd" property, name and timestamp are written by trigger.     *)
(***************************************************************************)
Payload(ref, patch) == [ref |-> ref, dd |-> patch]

NoPayload == Payload(0, Undef)

\* A lookup that answers true as soon as any event is logged.
isTriggeredByAny(log, name) == Len(log) > 0

\* _ddm.isTriggered(name) on the log.
isTriggered(log, name) == \E e \in 1..Len(log) : log[e].name = name

\* Lines 369-375: event = payload; event.name = ...; event.timestamp = ...
\* The log holds references, so an entry that is this payload object shows
\* the new name and timestamp too.
stampEvent(log, eventName, payload, t) ==
    [e \in 1..Len(log) |->
        IF payload.ref # 0 /\ log[e].ref = payload.ref
        THEN [log[e] EXCEPT !.name = eventName, !.timestamp = t]
        ELSE log[e]]

\* A gate that opens as soon as one name of dependsOn has occurred.
dependenciesMetByAny(rec, eventName, log) ==
    \E d \in 1..Len(rec.dependsOn) :
        rec.dependsOn[d] = eventName \/ isTriggered(log, rec.dependsOn[d])

\* Lines 406-411: every name of dependsOn is the current event or is logged.
dependenciesMet(rec, eventName, log) ==
    \A d \in 1..Len(rec.dependsOn) :
        rec.dependsOn[d] = eventName \/ isTriggered(log, rec.dependsOn[d])

RECURSIVE triggerListeners(_, _, _, _, _, _)
\* The loops of trigger (lines 395-433) over the visits vs: the registry
\* after them and the handler calls made, in order.
triggerListeners(listenerSet, vs, eventName, log, invokedHandlers, e) ==
    IF vs = <<>>
    THEN [listeners |-> listenerSet, calls |-> <<>>, errors |-> <<>>, escaped |-> FALSE]
    ELSE LET v == Head(vs)
             rec == listenerSet[v.pat][v.idx]
             due == (rec.hasDeps => dependenciesMet(rec, eventName, log))
                    /\ rec.handler \notin invokedHandlers
             called == due /\ ~rec.once
             call == IF called
                     THEN <<Invocation("event", v.pat, v.idx, rec.handler, Undef, e)>>
                     ELSE <<>>
             next == IF called /\ ReturnsTrue(rec.handler)
                     THEN [listenerSet EXCEPT ![v.pat][v.idx].once = TRUE]
                     ELSE listenerSet
             rest == triggerListeners(next, Tail(vs), eventName, log, invokedHandlers, e)
         IN  IF called /\ handleErrorRaises(rec.handler)
             THEN [listeners |-> listenerSet, calls |-> call, errors |-> <<>>,
                   escaped |-> TRUE]
             ELSE [listeners |-> rest.listeners,
                   calls |-> call \o rest.calls,
                   errors |-> (IF called /\ Throws(rec.handler)
                               THEN <<"listener-handler">> ELSE <<>>) \o rest.errors,
                   escaped |-> rest.escaped]

\* The names of the first e entries of the log (triggeredEvents of listen).
triggeredEvents(log, e) == {log[i].name : i \in 1..e}

RECURSIVE replayListeners(_, _, _, _, _)
\* The loops of listen (lines 600-636) for the logged event e over the
\* visits vs: only records of the handler being registered are called.
replayListeners(listenerSet, vs, log, handler, e) ==
    IF vs = <<>>
    THEN [listeners |-> listenerSet, calls |-> <<>>, errors |-> <<>>, escaped |-> FALSE]
    ELSE LET v == Head(vs)
             rec == listenerSet[v.pat][v.idx]
             due == (rec.hasDeps =>
                        \A d \in 1..Len(rec.dependsOn) :
                            rec.dependsOn[d] \in triggeredEvents(log, e))
                    /\ handler = rec.handler
             called == due /\ ~rec.once
             call == IF called
                     THEN <<Invocation("event", v.pat, v.idx, rec.handler, Undef, e)>>
                     ELSE <<>>
             next == IF called /\ ReturnsTrue(rec.handler)
                     THEN [listenerSet EXCEPT ![v.pat][v.idx].once = TRUE]
                     ELSE listenerSet
             rest == replayListeners(next, Tail(vs), log, handler, e)
         IN  IF called /\ handleErrorRaises(rec.handler)
             THEN [listeners |-> listenerSet, calls |-> call, errors |-> <<>>,
                   escaped |-> TRUE]
             ELSE [listeners |-> rest.listeners,
                   calls |-> call \o rest.calls,
                   errors |-> (IF called /\ Throws(rec.handler)
                               THEN <<"listener-handler">> ELSE <<>>) \o rest.errors,
                   escaped |-> rest.escaped]

RECURSIVE replayEvents(_, _, _, _)
\* The loop of listen over the log from entry e (lines 589-638); for each
\* entry the matching patterns and their records are walked backwards.
replayEvents(listenerSet, log, handler, e) ==
    IF e > Len(log)
    THEN [listeners |-> listenerSet, calls |-> <<>>, errors |-> <<>>, escaped |-> FALSE]
    ELSE LET vs == Reverse(Visits(listenerSet, getListeners(log[e].name, listenerSet)))
             here == replayListeners(listenerSet, vs, log, handler, e)
             rest == replayEvents(here.listeners, log, handler, e + 1)
         IN  IF here.escaped THEN here
             ELSE [listeners |-> rest.listeners, calls |-> here.calls \o rest.calls,
                   errors |-> here.errors \o rest.errors, escaped |-> rest.escaped]

RECURSIVE registerNames(_, _, _, _)
\* Lines 575-578: the names of an array are registered from the last to the
\* first, each record depending on the whole array.
registerNames(listenerSet, names, n, handler) ==
    IF n = 0 THEN listenerSet
    ELSE registerNames(registerListener(listenerSet, names[n], handler, TRUE, names),
                       names, n - 1, handler)

\* _ddm.trigger(eventName, payload)
Trigger(eventName, payload) ==
    LET log == stampEvent(events, eventName, payload, now)
        event == [name |-> eventName, timestamp |-> now, ref |-> payload.ref, dd |-> payload.dd]
        patch == isObject(event.dd)
        prev == cloneObject(dd)
        cur == mergeObjects(dd, cloneObject(event.dd))
        invokedHandlers ==
            IF patch
            THEN invokedFunctions(persistenceListeners, prev, cur)
                 \cup invokedFunctions(propertyListeners, prev, cur)
            ELSE {}
        vs == Visits(eventListeners, getListeners(eventName, eventListeners))
        raised == patch /\ changeListenersEscape(persistenceListeners, prev, cur)
        first == roundEscapes(persistenceListeners, prev, cur)
        out == IF raised
               THEN [listeners |-> eventListeners, calls |-> <<>>, errors |-> <<>>,
                     escaped |-> TRUE]
               ELSE triggerListeners(eventListeners, vs, eventName, log, invokedHandlers,
                                     Len(events) + 1)
    IN  /\ IF patch
           THEN /\ prev_dd' = prev
                /\ dd' = cur
                /\ storage' = storageAfterRound(storage, persistenceListeners,
                                                pathsToPersist, prev, cur, now)
                /\ propertyListeners' =
                       IF first THEN propertyListeners
                       ELSE propertyListenersAfterRound(propertyListeners, prev, cur)
                /\ fired' = roundInvocations("persistence", persistenceListeners, prev, cur)
                            \o (IF first THEN <<>>
                                ELSE roundInvocations("property", propertyListeners, prev, cur))
                            \o out.calls
                /\ errs' = roundErrors(persistenceListeners, prev, cur)
                           \o (IF first THEN <<>>
                               ELSE roundErrors(propertyListeners, prev, cur))
                           \o out.errors
                           \o (IF out.escaped THEN <<"trigger">> ELSE <<>>)
           ELSE /\ fired' = out.calls
                /\ errs' = out.errors \o (IF out.escaped THEN <<"trigger">> ELSE <<>>)
                /\ UNCHANGED <<dd, prev_dd, storage, propertyListeners>>
        /\ eventListeners' = out.listeners
        /\ events' = IF out.escaped THEN log ELSE Append(log, event)
        /\ op' = Call("trigger", eventName, payload.dd, "", FALSE, payload.ref)
        /\ ret' = returnOr(errs', Undef)
        /\ UNCHANGED <<persistenceListeners, pathsToPersist, now>>

\* Lines 574-583 of listen: the registration of one name or of an array.
registerListen(listenerSet, names, isArrayName, handler) ==
    IF isArrayName
    THEN registerNames(listenerSet, names, Len(names), handler)
    ELSE registerListener(listenerSet, names[1], handler, FALSE, <<>>)

\* _ddm.listen(name, invokeHandlerOnHistoricalEvents, handler): names holds
\* the one name, or the names of the array when isArrayName.
Listen(names, isArrayName, invokeHandlerOnHistoricalEvents, fn) ==
    LET handler == Handler(fn)
        registered == registerListen(eventListeners, names, isArrayName, handler)
        out == IF invokeHandlerOnHistoricalEvents
               THEN replayEvents(registered, events, handler, 1)
               ELSE [listeners |-> registered, calls |-> <<>>, errors |-> <<>>,
                     escaped |-> FALSE]
    IN  /\ eventListeners' = out.listeners
        /\ fired' = out.calls
        /\ errs' = out.errors \o (IF out.escaped THEN <<"listen">> ELSE <<>>)
        /\ op' = Call("listen", IF isArrayName THEN <<>> ELSE names[1], Undef, fn,
                      invokeHandlerOnHistoricalEvents, IF isArrayName THEN Len(names) ELSE 0)
        /\ ret' = returnOr(errs', Undef)
        /\ UNCHANGED <<dd, prev_dd, propertyListeners, persistenceListeners, pathsToPersist,
                       events, storage, now>>

\* An unlisten that removes the records of the handler under every name.
UnlistenEverywhere(name, fn) ==
    /\ eventListeners' =
           [p \in DOMAIN eventListeners |->
               SelectSeq(eventListeners[p], LAMBDA rec : rec.handler # Handler(fn))]
    /\ fired' = <<>>
    /\ errs' = <<>>
    /\ op' = Call("unlisten", name, Undef, fn, FALSE, 0)
    /\ ret' = returnOr(errs', Undef)
    /\ UNCHANGED <<dd, prev_dd, propertyListeners, persistenceListeners, pathsToPersist,
                   events, storage, now>>
\* _ddm.unlisten(name, handler): the records of the handler are spliced out
\* of the array registered for exactly this name.
Unlisten(name, fn) ==
    /\ eventListeners' =
           [p \in DOMAIN eventListeners |->
               IF p = name
               THEN SelectSeq(eventListeners[p], LAMBDA rec : rec.handler # Handler(fn))
               ELSE eventListeners[p]]
    /\ fired' = <<>>
    /\ errs' = <<>>
    /\ op' = Call("unlisten", name, Undef, fn, FALSE, 0)
    /\ ret' = returnOr(errs', Undef)
    /\ UNCHANGED <<dd, prev_dd, propertyListeners, persistenceListeners, pathsToPersist,
                   events, storage, now>>

(***************************************************************************)
(* PERSISTENCE SYNCHRONIZER: persist, unpersist, time and reload           *)
(***************************************************************************)
\* _ddm.persist(path, ttl)
Persist(path, ttl) ==
    /\ persistenceListeners' = persistListeners(persistenceListeners, pathsToPersist, path)
    /\ pathsToPersist' = SetItem(pathsToPersist, path, ttl)
    /\ storage' = persistCurrent(storage, path, ttl, now)
    /\ fired' = <<>>
    /\ errs' = <<>>
    /\ op' = Call("persist", path, Undef, "", FALSE, ttl)
    /\ ret' = returnOr(errs', Undef)
    /\ UNCHANGED <<dd, prev_dd, propertyListeners, eventListeners, events, now>>

\* An unpersist that leaves the listeners of path.** registered.
UnpersistKeepsDeep(path) ==
    /\ persistenceListeners' =
           [p \in DOMAIN persistenceListeners \ {path} |-> persistenceListeners[p]]
    /\ storage' = unpersistValue(storage, path, now)
    /\ fired' = <<>>
    /\ errs' = <<>>
    /\ op' = Call("unpersist", path, Undef, "", FALSE, 0)
    /\ ret' = returnOr(errs', Undef)
    /\ UNCHANGED <<dd, prev_dd, propertyListeners, eventListeners, pathsToPersist,
                   events, now>>

\* _ddm.unpersist(path): the two listener arrays are deleted and the stored
\* value removed; _pathsToPersist keeps the path.
Unpersist(path) ==
    /\ persistenceListeners' =
           [p \in DOMAIN persistenceListeners \ {path, Append(path, "**")} |->
               persistenceListeners[p]]
    /\ storage' = unpersistValue(storage, path, now)
    /\ fired' = <<>>
    /\ errs' = <<>>
    /\ op' = Call("unpersist", path, Undef, "", FALSE, 0)
    /\ ret' = returnOr(errs', Undef)
    /\ UNCHANGED <<dd, prev_dd, propertyListeners, eventListeners, pathsToPersist,
                   events, now>>

\* The keys of the store: the value key and the expiry key of a path.
StorageKeys(stor) ==
    {[kind |-> "value", path |-> p] : p \in DOMAIN stor.val}
    \cup {[kind |-> "expiry", path |-> p] : p \in DOMAIN stor.exp}

\* The orders in which for (key in storage) may enumerate the keys.
KeyOrders(stor) ==
    {order \in [1..Cardinality(StorageKeys(stor)) -> StorageKeys(stor)] :
        \A i, j \in DOMAIN order : i # j => order[i] # order[j]}

RECURSIVE restoreFrom(_, _, _)
\* The loop of restorePersistedDD over the keys in the given order, on the
\* engine st (tree, listeners, table, stor); a key removed earlier in the
\* loop is not visited.  JSON.parse of the text undefined raises and ends
\* the loop.
restoreFrom(st, order, t) ==
    IF order = <<>> THEN st
    ELSE LET key == Head(order)
             ddKey == key.path
             removed == [st EXCEPT !.stor = [val |-> RemoveItem(st.stor.val, ddKey),
                                             exp |-> RemoveItem(st.stor.exp, ddKey)]]
         IN  IF key \notin StorageKeys(st.stor) THEN restoreFrom(st, Tail(order), t)
             ELSE IF key.kind = "expiry"
             THEN IF ddKey \in DOMAIN st.stor.val /\ st.stor.exp[ddKey] > t
                  THEN IF JsonParse(st.stor.val[ddKey]).k = "throw" THEN st
                       ELSE restoreFrom(
                                [tree |-> setObjectAtPath(st.tree, ddKey, JsonParse(st.stor.val[ddKey])),
                                 listeners |-> persistListeners(st.listeners, st.table, ddKey),
                                 table |-> IF ddKey \in DOMAIN st.table THEN st.table
                                           ELSE SetItem(st.table, ddKey, DefaultTtl),
                                 stor |-> IF ddKey \in DOMAIN st.table THEN st.stor
                                          ELSE persistCurrent(st.stor, ddKey, DefaultTtl, t)],
                                Tail(order), t)
                  ELSE restoreFrom(removed, Tail(order), t)
             ELSE IF st.stor.val[ddKey].k = "undef"
                  THEN restoreFrom([st EXCEPT !.stor.val = RemoveItem(st.stor.val, ddKey)],
                                   Tail(order), t)
                  ELSE restoreFrom(st, Tail(order), t)

\* restorePersistedDD on a newly loaded engine.
restorePersistedDD(stor, order, t) ==
    restoreFrom([tree |-> EmptyObj, listeners |-> NoListeners,
                 table |-> [p \in {} |-> 0], stor |-> stor], order, t)

\* A new page load: the engine starts over (lines 17-29, 1626) and restores
\* the tree from the store, which is all that outlives the page.
Reload ==
    \E order \in KeyOrders(storage) :
        LET st == restorePersistedDD(storage, order, now)
        IN  /\ dd' = st.tree
            /\ prev_dd' = EmptyObj
            /\ persistenceListeners' = st.listeners
            /\ pathsToPersist' = st.table
            /\ storage' = st.stor
            /\ propertyListeners' = NoListeners
            /\ eventListeners' = NoListeners
            /\ events' = <<>>
            /\ fired' = <<>>
            /\ errs' = <<>>
            /\ op' = Call("reload", <<>>, Undef, "", FALSE, 0)
            /\ ret' = returnOr(errs', Undef)
            /\ UNCHANGED now

\* Time passes between two calls.
Tick(minutes) ==
    /\ now' = now + minutes * MsPerMinute
    /\ op' = Call("tick", <<>>, Undef, "", FALSE, minutes)
    /\ ret' = Undef
    /\ fired' = <<>>
    /\ errs' = <<>>
    /\ UNCHANGED <<dd, prev_dd, propertyListeners, persistenceListeners, eventListeners,
                   pathsToPersist, events, storage>>

(***************************************************************************)
(* INITIALISATION with a stand-in at window._ddm (lines 1612-1644)         *)
(***************************************************************************)
\* The arguments of a buffered listen call and of a buffered trigger call.
ListenArgs(names, isArrayName, invokeHandlerOnHistoricalEvents, fn) ==
    [names |-> names, isArrayName |-> isArrayName,
     replay |-> invokeHandlerOnHistoricalEvents, fn |-> fn]

TriggerArgs(eventName, payload) == [name |-> eventName, payload |-> payload]

\* The trigger of the mini version: p = isObject(p) ? p : {}; p.name = n;
\* _ddm.events.push(p).
miniTrigger(stub, eventName, payload) ==
    [stub EXCEPT !.events =
        Append(stampEvent(stub.events, eventName, payload, 0),
               [name |-> eventName, timestamp |-> 0, ref |-> payload.ref, dd |-> payload.dd])]

RECURSIVE bootListens(_, _, _)
\* Lines 1635-1636: _d.listen is applied to l[l.length - 1], ..., l[0].  The
\* log is empty at this point, so no listen replays anything.
bootListens(listenerSet, l, i) ==
    IF i = 0 THEN listenerSet
    ELSE bootListens(registerListen(listenerSet, l[i].names, l[i].isArrayName,
                                    Handler(l[i].fn)),
                     l, i - 1)

\* One _d.trigger of line 1640 on the engine state st.  No change listener
\* is registered yet; the persistence listeners are those restored.
bootTrigger(st, eventName, payload, t) ==
    LET log == stampEvent(st.events, eventName, payload, t)
        event == [name |-> eventName, timestamp |-> t, ref |-> payload.ref, dd |-> payload.dd]
        patch == isObject(event.dd)
        prev == IF patch THEN cloneObject(st.dd) ELSE st.prev
        cur == IF patch THEN mergeObjects(st.dd, cloneObject(event.dd)) ELSE st.dd
        invokedHandlers == IF patch THEN invokedFunctions(st.pl, prev, cur) ELSE {}
        vs == Visits(st.el, getListeners(eventName, st.el))
        out == triggerListeners(st.el, vs, eventName, log, invokedHandlers, Len(st.events) + 1)
    IN  [dd |-> cur, prev |-> prev, pl |-> st.pl, table |-> st.table,
         stor |-> IF patch
                  THEN storageAfterRound(st.stor, st.pl, st.table, prev, cur, t)
                  ELSE st.stor,
         el |-> out.listeners,
         events |-> IF out.escaped THEN log ELSE Append(log, event),
         calls |-> st.calls
                   \o (IF patch THEN roundInvocations("persistence", st.pl, prev, cur)
                       ELSE <<>>)
                   \o out.calls,
         errors |-> st.errors \o out.errors
                    \o (IF out.escaped THEN <<"trigger">> ELSE <<>>)]

RECURSIVE bootTriggers(_, _, _, _)
\* Lines 1639-1640: _d.trigger is applied to e[0], ..., e[e.length - 1].
bootTriggers(st, e, i, t) ==
    IF i > Len(e) THEN st
    ELSE bootTriggers(bootTrigger(st, e[i].name, e[i].payload, t), e, i + 1, t)

\* The engine script runs.  When window._ddm is an object with an events
\* array the script returns at line 1617 and window._ddm stays what it was.
LoadEngine ==
    IF window_ddm.kind \in {"engine", "mini"}
    THEN /\ op' = Call("load", <<>>, Undef, "", FALSE, 0)
         /\ ret' = Undef
         /\ fired' = <<>>
         /\ errs' = <<>>
         /\ UNCHANGED <<dd, prev_dd, propertyListeners, persistenceListeners, eventListeners,
                        pathsToPersist, events, storage, now, window_ddm>>
    ELSE \E order \in KeyOrders(storage) :
        LET restored == restorePersistedDD(storage, order, now)
            rich == window_ddm.kind = "rich"
            first == [dd |-> restored.tree, prev |-> EmptyObj, pl |-> restored.listeners,
                      table |-> restored.table, stor |-> restored.stor,
                      el |-> IF rich
                             THEN bootListens(NoListeners, window_ddm.l, Len(window_ddm.l))
                             ELSE NoListeners,
                      events |-> <<>>, calls |-> <<>>, errors |-> <<>>]
            st == IF rich THEN bootTriggers(first, window_ddm.e, 1, now) ELSE first
        IN  /\ dd' = st.dd
            /\ prev_dd' = st.prev
            /\ persistenceListeners' = st.pl
            /\ pathsToPersist' = st.table
            /\ storage' = st.stor
            /\ propertyListeners' = NoListeners
            /\ eventListeners' = st.el
            /\ events' = st.events
            /\ fired' = st.calls
            /\ errs' = st.errors
            /\ window_ddm' = Engine
            /\ op' = Call("load", <<>>, Undef, "", rich, Len(window_ddm.e))
            /\ ret' = returnOr(errs', Undef)
            /\ UNCHANGED now

\* The page calls _ddm.listen(...): the engine's listen, the buffering listen
\* of the stand-in with l and e, or a TypeError where there is no such function.
PageListen(names, isArrayName, invokeHandlerOnHistoricalEvents, fn) ==
    IF window_ddm.kind = "engine"
    THEN Listen(names, isArrayName, invokeHandlerOnHistoricalEvents, fn)
         /\ UNCHANGED window_ddm
    ELSE /\ window_ddm' =
                IF window_ddm.kind = "rich"
                THEN [window_ddm EXCEPT !.l =
                         Append(@, ListenArgs(names, isArrayName,
                                              invokeHandlerOnHistoricalEvents, fn))]
                ELSE window_ddm
         /\ errs' = IF window_ddm.kind = "rich" THEN <<>> ELSE <<"uncaught">>
         /\ fired' = <<>>
         /\ op' = Call("listen", IF isArrayName THEN <<>> ELSE names[1], Undef, fn,
                       invokeHandlerOnHistoricalEvents, IF isArrayName THEN Len(names) ELSE 0)
         /\ ret' = returnOr(errs', Undef)
         /\ UNCHANGED <<dd, prev_dd, propertyListeners, persistenceListeners, eventListeners,
                        pathsToPersist, events, storage, now>>

\* The page calls _ddm.trigger(...): the engine's trigger or that of a stand-in.
PageTrigger(eventName, payload) ==
    IF window_ddm.kind = "engine"
    THEN Trigger(eventName, payload) /\ UNCHANGED window_ddm
    ELSE /\ window_ddm' =
                IF window_ddm.kind = "rich"
                THEN [window_ddm EXCEPT !.e = Append(@, TriggerArgs(eventName, payload))]
                ELSE IF window_ddm.kind = "mini"
                THEN miniTrigger(window_ddm, eventName, payload)
                ELSE window_ddm
         /\ errs' = IF window_ddm.kind = "none" THEN <<"uncaught">> ELSE <<>>
         /\ fired' = <<>>
         /\ op' = Call("trigger", eventName, payload.dd, "", FALSE, payload.ref)
         /\ ret' = returnOr(errs', Undef)
         /\ UNCHANGED <<dd, prev_dd, propertyListeners, persistenceListeners, eventListeners,
                        pathsToPersist, events, storage, now>>

(***************************************************************************)
(* SpecTree: the tree, its mutations and its change listeners.             *)
(***************************************************************************)
MaxListeners == 2

UserName == <<"user", "name">>

UserAddress == <<"user", "address">>

UserAddressZip == <<"user", "address", "zip">>

ZipObj == Obj(<<Pair("zip", Num("2"))>>)

\* The set(path, value) calls of SpecTree.
TreeInputs ==
    ({UserAddressZip} \X {Num("1"), Num("2")})
    \cup {<<UserName, Num("1")>>, << <<"user">>, Obj(<<Pair("address", ZipObj)>>) >>}

TreePaths == {<<"user">>, UserName, UserAddress, UserAddressZip}

TreePatterns == {<<"user", "*">>, <<"user", "**">>}

Handlers == {"h1", "h2"}

TreeSet == \E inp \in TreeInputs : Set(inp[1], inp[2], FALSE, 0) /\ UNCHANGED <<hist, window_ddm, held>>

TreeErase == \E path \in TreePaths : Erase(path) /\ UNCHANGED <<hist, window_ddm, held>>

TreeChange ==
    /\ RecordCount(propertyListeners) < MaxListeners
    /\ \E path \in TreePatterns, only \in BOOLEAN, fn \in Handlers :
           Change(path, only, fn) /\ UNCHANGED <<hist, window_ddm, held>>

NextTree == TreeSet \/ TreeErase \/ TreeChange

SpecTree == Init /\ [][NextTree]_vars

\* A mutation: a set or an erase step.
IsMutation == op'.name \in {"set", "erase"}

\* The calls a step makes through the property listener records of pattern pat.
FiredThrough(pat, f) == {f[i].idx : i \in {j \in 1..Len(f) : f[j].reg = "property" /\ f[j].pat = pat}}

\* The records of pattern pat that are not marked fire-once.
LiveRecords(listenerSet, pat) ==
    IF pat \in DOMAIN listenerSet
    THEN {i \in 1..Len(listenerSet[pat]) : ~listenerSet[pat][i].once}
    ELSE {}

NameChanges == getObjectAtPath(UserName, dd) # getObjectAtPath(UserName, dd')

ZipChanges == getObjectAtPath(UserAddressZip, dd) # getObjectAtPath(UserAddressZip, dd')

\* user.address is an object before and after the step.
AddressStays == isObject(getObjectAtPath(UserAddress, dd)) /\ isObject(getObjectAtPath(UserAddress, dd'))

PathA == <<"a">>
PathAB == <<"a", "b">>
\* The set(path, value) calls of SpecMerge.
MergeInputs ==
    ({PathA} \X { Null, Obj(<<Pair("x", Num("1"))>>),
                  Obj(<<Pair("y", Num("2"))>>),
                  Obj(<<Pair("b", Num("1"))>>),
                  Obj(<<Pair("b", Obj(<<Pair("c", Num("1"))>>))>>),
                  Obj(<<Pair("b", Obj(<<Pair("c", Num("2")), Pair("d", Null)>>))>>) })
    \cup ({PathAB} \X { Undef, Num("1"), Arr(<<Num("1")>>), Obj(<<Pair("c", Num("1"))>>) })
MergeSet == \E inp \in MergeInputs : Set(inp[1], inp[2], FALSE, 0) /\ UNCHANGED <<hist, window_ddm, held>>
MergeErase == \E path \in {PathA, PathAB} : Erase(path) /\ UNCHANGED <<hist, window_ddm, held>>
NextMerge == MergeSet \/ MergeErase
SpecMerge == Init /\ [][NextMerge]_vars

\* _ddm.get(path) without a default value.
get(tree, path) == cloneObject(getObjectAtPath(path, tree))

Keys(v) == {v.m[i].key : i \in 1..Len(v.m)}

RECURSIVE IsMerge(_, _, _)
\* r is the recursive key-wise merge of the maps a and b: it has the keys of
\* both; a key of b carries b's value, merged with a's when both are maps;
\* every other key carries a's value.
IsMerge(r, a, b) ==
    /\ isObject(r)
    /\ Keys(r) = Keys(a) \cup Keys(b)
    /\ \A key \in Keys(r) :
           IF key \notin Keys(b) THEN Prop(r, key) = Prop(a, key)
           ELSE IF isObject(Prop(b, key)) /\ key \in Keys(a) /\ isObject(Prop(a, key))
           THEN IsMerge(Prop(r, key), Prop(a, key), Prop(b, key))
           ELSE Prop(r, key) = Prop(b, key)

\* C1: after set(p, v) the value at p is the recursive key-wise merge of the
\* value that was at p and v when both are maps, and is v in every other
\* case; the values at p are the ones get(p) returns before and after.
C1_SetMergesOrOverwrites ==
    [][op'.name = "set" =>
        LET old == get(dd, op'.path)
            new == get(dd', op'.path)
        IN  IF isObject(old) /\ isObject(op'.value)
            THEN IsMerge(new, old, op'.value)
            ELSE new = op'.value]_vars

\* C1's case: a set of a map onto a map that kept a key of the old value at
\* depth two and took a key of the new one.
C1_Witness ==
    /\ op.name = "set" /\ op.path = PathA
    /\ getObjectAtPath(<<"a", "b", "c">>, prev_dd) = Num("1")
    /\ getObjectAtPath(<<"a", "x">>, prev_dd) = Num("1")
    /\ getObjectAtPath(<<"b", "c">>, op.value) = Num("2")
    /\ dd = Obj(<<Pair("a", Obj(<<Pair("x", Num("1")),
                                   Pair("b", Obj(<<Pair("c", Num("2")), Pair("d", Null)>>))>>))>>)

\* C17: erase of a path at which no value exists, a path with a missing, a
\* scalar or a null intermediate node included, changes nothing and raises
\* no error; erase of a path with a value removes exactly the last key of
\* the path from its parent and runs a dispatch round.
C17_Original ==
    [][op'.name = "erase" =>
          IF getObjectAtPath(op'.path, dd).k \in {"undef", "throw"}
          THEN dd' = dd /\ errs' = <<>> /\ fired' = <<>> /\ ret' = Undef
          ELSE /\ dd' = deleteAtPath(dd, op'.path)
               /\ prev_dd' = cloneObject(dd)
               /\ errs' = <<>>]_vars

\* The same statement for paths without a null intermediate node.
EraseWithoutNull ==
    [][op'.name = "erase" /\ getObjectAtPath(op'.path, dd).k # "throw" =>
          IF getObjectAtPath(op'.path, dd).k = "undef"
          THEN dd' = dd /\ errs' = <<>> /\ fired' = <<>> /\ ret' = Undef
          ELSE /\ dd' = deleteAtPath(dd, op'.path)
               /\ prev_dd' = cloneObject(dd)
               /\ errs' = <<>>]_vars

(***************************************************************************)
(* SpecEvents: event listeners and triggers, next to one change listener   *)
(* pattern and the mutations of its path.                                  *)
(***************************************************************************)
MaxEvents == 2
MaxEventListeners == 2
MaxChangeListeners == 1
EvtA == <<"evtA">>
EvtB == <<"evtB">>
EventNames == {EvtA, EvtB}
\* The name arguments of listen: one name, or an array of names.
ListenNames ==
    { [names |-> <<EvtA>>, isArrayName |-> FALSE],
      [names |-> <<EvtB>>, isArrayName |-> FALSE],
      [names |-> <<EvtA, EvtB>>, isArrayName |-> TRUE] }
NamePatch == Obj(<<Pair("user", Obj(<<Pair("name", Num("1"))>>))>>)
\* The trigger(eventName, payload) calls of SpecEvents.
EventTriggers == {<<EvtA, NoPayload>>, <<EvtB, NoPayload>>, <<EvtB, Payload(0, NamePatch)>>}
EventsListen ==
    \E nm \in ListenNames, replay \in BOOLEAN, fn \in Handlers :
        /\ RecordCount(eventListeners) + Len(nm.names) <= MaxEventListeners
        /\ Listen(nm.names, nm.isArrayName, replay, fn)
        /\ UNCHANGED <<hist, window_ddm, held>>
EventsTrigger ==
    \E tr \in EventTriggers :
        /\ Len(events) < MaxEvents
        /\ Trigger(tr[1], tr[2])
        /\ UNCHANGED <<hist, window_ddm, held>>
EventsChange ==
    \E only \in BOOLEAN, fn \in Handlers :
        /\ RecordCount(propertyListeners) < MaxChangeListeners
        /\ Change(UserName, only, fn)
        /\ UNCHANGED <<hist, window_ddm, held>>
EventsSet == Set(UserName, Num("2"), FALSE, 0) /\ UNCHANGED <<hist, window_ddm, held>>
NextEvents == EventsListen \/ EventsTrigger \/ EventsChange \/ EventsSet
SpecEvents == Init /\ [][NextEvents]_vars

\* The change and event listener registries by name.
Registry(reg) == IF reg = "property" THEN propertyListeners ELSE eventListeners

\* The positions of the records of handler fn in a registry, as <<pattern, index>>.
RecordsOf(listenerSet, fn) ==
    UNION {{<<p, i>> : i \in {j \in 1..Len(listenerSet[p]) : listenerSet[p][j].handler = Handler(fn)}}
           : p \in DOMAIN listenerSet}

\* The calls of handler fn among the calls f that came through registry reg.
CallsOf(fn, reg, f) == {i \in 1..Len(f) : f[i].handler = Handler(fn) /\ f[i].reg = reg}

\* No pattern of the registry holds two records with the same handler.
OneRecordPerHandler(listenerSet) ==
    \A p \in DOMAIN listenerSet : \A i, j \in 1..Len(listenerSet[p]) :
        i # j => listenerSet[p][i].handler # listenerSet[p][j].handler

\* C3 as stated: a pattern of the change or event listener registry never
\* holds two records with the same handler, however often the handler was
\* registered for it.
C3_Original ==
    OneRecordPerHandler(propertyListeners) /\ OneRecordPerHandler(eventListeners)

\* Both events of the array have occurred.
BothTriggered(log) == isTriggered(log, EvtA) /\ isTriggered(log, EvtB)

\* The registrations of fn are those of one listen([evtA, evtB], fn): one
\* record under each name, both depending on the two names, and fn is not a
\* change listener.
ArrayPairOnly(fn) ==
    /\ RecordsOf(propertyListeners, fn) = {}
    /\ {r[1] : r \in RecordsOf(eventListeners, fn)} = {EvtA, EvtB}
    /\ Cardinality(RecordsOf(eventListeners, fn)) = 2
    /\ \A r \in RecordsOf(eventListeners, fn) :
           /\ eventListeners[r[1]][r[2]].hasDeps
           /\ eventListeners[r[1]][r[2]].dependsOn = <<EvtA, EvtB>>

MarkedOnce(fn) ==
    \E reg \in {"property", "event"} : \E r \in RecordsOf(Registry(reg), fn) :
        Registry(reg)[r[1]][r[2]].once

\* C5 as stated: a handler that has returned true to a dispatch, so that one
\* of its records is marked fire-once, is not invoked by any later step; the
\* steps looked at are those that leave no handler registered twice for a
\* pattern.
C5_Original ==
    [][OneRecordPerHandler(propertyListeners') /\ OneRecordPerHandler(eventListeners') =>
          \A fn \in Handlers :
              MarkedOnce(fn) => \A i \in 1..Len(fired') : fired'[i].handler # Handler(fn)]_vars

\* C5, amended: fire-once holds per listener record.  A record marked
\* fire-once stays marked and no later set, erase, trigger, listen or change
\* invokes its handler through it; and every call a dispatch makes through
\* a record that returns true marks that record.
C5_RecordFiresOnce ==
    [][\A reg \in {"property", "event"} :
          /\ \A p \in DOMAIN Registry(reg) : \A i \in 1..Len(Registry(reg)[p]) :
                 Registry(reg)[p][i].once =>
                     /\ Registry(reg)'[p][i].once
                     /\ ~\E c \in 1..Len(fired') :
                            fired'[c].reg = reg /\ fired'[c].pat = p /\ fired'[c].idx = i
          /\ \A c \in 1..Len(fired') :
                 fired'[c].reg = reg /\ fired'[c].idx > 0 /\ fired'[c].ret =>
                     Registry(reg)'[fired'[c].pat][fired'[c].idx].once]_vars

\* C5's case: evtA was triggered a second time and the record under evtA,
\* marked fire-once by the first, was not called.
C5_Witness ==
    /\ op.name = "trigger" /\ op.path = EvtA
    /\ Len(events) = 2 /\ events[1].name = EvtA /\ events[2].name = EvtA
    /\ EvtA \in DOMAIN eventListeners /\ Len(eventListeners[EvtA]) = 1
    /\ eventListeners[EvtA][1].once
    /\ fired = <<>>

\* C27: in a trigger call whose payload patches the tree, a handler called
\* by the change listener dispatch of the patch is not called by the event
\* listener dispatch of the same call, whether its event record depends on
\* other events or not.
C27_NotInvokedAgain ==
    [][op'.name = "trigger" =>
          \A fn \in Handlers :
              CallsOf(fn, "property", fired') # {} => CallsOf(fn, "event", fired') = {}]_vars

\* The live record of fn under evtB: whether it has the dependsOn array of
\* the two names or none.
LiveRecordUnderB(fn, hasDeps) ==
    /\ EvtB \in DOMAIN eventListeners
    /\ \E i \in 1..Len(eventListeners[EvtB]) :
           /\ eventListeners[EvtB][i].handler = Handler(fn)
           /\ eventListeners[EvtB][i].hasDeps = hasDeps
           /\ ~eventListeners[EvtB][i].once

\* trigger("evtB", {dd: patch}) after evtA: the handler listens to
\* [evtA, evtB], whose dependencies this trigger completes, and to changes
\* of user.name; the patch changed user.name and the handler was called
\* once, by the change dispatch.
C27_Witness ==
    /\ op.name = "trigger" /\ op.path = EvtB /\ isObject(op.value)
    /\ isTriggered(SubSeq(events, 1, Len(events) - 1), EvtA)
    /\ \E fn \in Handlers :
           /\ LiveRecordUnderB(fn, TRUE)
           /\ Cardinality(CallsOf(fn, "property", fired)) = 1
           /\ CallsOf(fn, "event", fired) = {}

\* The same with a record under evtB that depends on no other event.
PlainListenerWitness ==
    /\ op.name = "trigger" /\ op.path = EvtB /\ isObject(op.value)
    /\ \E fn \in Handlers :
           /\ LiveRecordUnderB(fn, FALSE)
           /\ Cardinality(CallsOf(fn, "property", fired)) = 1
           /\ CallsOf(fn, "event", fired) = {}
\* The number of records a pattern of the event registry held before the step.
RecordsBefore(pat) == IF pat \in DOMAIN eventListeners THEN Len(eventListeners[pat]) ELSE 0

\* C29 as stated: a listen call with historical replay delivers logged
\* events only through the records it has just registered, so only events
\* that match the newly registered names; the records the handler had before
\* the call receive nothing.
C29_Original ==
    [][op'.name = "listen" /\ op'.flag =>
          \A c \in 1..Len(fired') : fired'[c].idx > RecordsBefore(fired'[c].pat)]_vars

\* A replay calls no record that is marked fire-once and no handler other
\* than the one being registered.
ReplayCallsOwnLiveRecords ==
    [][op'.name = "listen" =>
          /\ (~op'.flag => fired' = <<>>)
          /\ \A c \in 1..Len(fired') :
                 /\ fired'[c].handler = Handler(op'.fn)
                 /\ fired'[c].idx <= RecordsBefore(fired'[c].pat) =>
                        ~eventListeners[fired'[c].pat][fired'[c].idx].once]_vars
\* C15: trigger returns true when at least one listener handler was called
\* during the call, and false otherwise.
C15_Original ==
    [][op'.name = "trigger" => ret' = Bool(fired' # <<>>)]_vars

(***************************************************************************)
(* SpecReplay: one handler listens without replay from the start, events   *)
(* are triggered without dd patches, some of them with a payload object    *)
(* the caller passes again, and then a second handler of the same          *)
(* behaviour registers for the same names with replay.                     *)
(***************************************************************************)
MaxReplayEvents == 4
SharedPayload == Payload(1, Undef)
\* The handler that behaves as fn does and registers late.
Twin(fn) == IF fn = "h1" THEN "h1twin" ELSE "h2twin"
\* The handler of the first registration.
LiveHandler ==
    LET p == CHOOSE q \in DOMAIN eventListeners : Len(eventListeners[q]) > 0
    IN  eventListeners[p][1].handler.fn
\* The name argument of the first registration, read back from its records.
LiveNames ==
    LET p == CHOOSE q \in DOMAIN eventListeners : Len(eventListeners[q]) > 0
        rec == eventListeners[p][1]
    IN  IF rec.hasDeps THEN [names |-> rec.dependsOn, isArrayName |-> TRUE]
        ELSE [names |-> <<p>>, isArrayName |-> FALSE]
LateRegistered == \E p \in DOMAIN eventListeners : Len(eventListeners[p]) > 1
ReplayListenFirst ==
    /\ eventListeners = NoListeners /\ events = <<>>
    /\ \E nm \in ListenNames, fn \in Handlers : Listen(nm.names, nm.isArrayName, FALSE, fn)
    /\ hist' = <<>>
    /\ UNCHANGED <<window_ddm, held>>
ReplayTrigger ==
    /\ eventListeners # NoListeners /\ ~LateRegistered
    /\ Len(events) < MaxReplayEvents
    /\ \E eventName \in EventNames, payload \in {NoPayload, SharedPayload} :
           Trigger(eventName, payload)
    /\ hist' = hist \o [i \in 1..Len(fired') |-> fired'[i].ev]
    /\ UNCHANGED <<window_ddm, held>>
ReplayListenLate ==
    /\ eventListeners # NoListeners /\ ~LateRegistered
    /\ Listen(LiveNames.names, LiveNames.isArrayName, TRUE, Twin(LiveHandler))
    /\ UNCHANGED <<hist, window_ddm, held>>
NextReplay == ReplayListenFirst \/ ReplayTrigger \/ ReplayListenLate
SpecReplay == Init /\ [][NextReplay]_vars

\* C6 as stated: the handler registered with replay after the triggers is
\* called for the same log entries, in the same order, as the handler of the
\* same behaviour that listened from before the first trigger.
C6_Original ==
    op.name = "listen" /\ op.flag => [i \in 1..Len(fired) |-> fired[i].ev] = hist

C23_Original ==
    [][/\ Len(events) <= Len(events')
       /\ \A e \in 1..Len(events) : events'[e].name = events[e].name
       /\ \A x \in EventNames : isTriggered(events, x) => isTriggered(events', x)]_vars

\* Without a payload object passed twice, the log only grows and its
\* entries stay as they were appended.
LogAppendOnlyOwnPayloads ==
    [][op'.n = 0 =>
          /\ Len(events) <= Len(events')
          /\ \A e \in 1..Len(events) : events'[e] = events[e]]_vars

\* The log as a handler called during the trigger step reads it: the
\* entries before the call, stamped where they are the payload object.
LogDuringDispatch == stampEvent(events, op'.path, Payload(op'.n, op'.value), now)

\* C28 as stated: a trigger(n) call appends its event exactly once, after
\* its dispatch, so a handler called during the call reads isTriggered(n) as
\* false unless n was triggered by an earlier call.
C28_Original ==
    [][op'.name = "trigger" =>
          /\ Len(events') = Len(events) + 1
          /\ events'[Len(events')].name = op'.path
          /\ (fired' # <<>> /\ ~isTriggered(events, op'.path) =>
                 ~isTriggered(LogDuringDispatch, op'.path))]_vars

\* The same for the trigger calls that pass no payload object of an earlier
\* call: the log during the dispatch is the log before the call.
AppendedAfterDispatchOwnPayloads ==
    [][op'.name = "trigger" /\ op'.n = 0 =>
          /\ LogDuringDispatch = events
          /\ Len(events') = Len(events) + 1
          /\ SubSeq(events', 1, Len(events)) = events
          /\ events'[Len(events')].name = op'.path]_vars

(***************************************************************************)
(* SpecPersist: a persisted path, its mutations, the clock and reloads.    *)
(***************************************************************************)
MaxTicks == 2
TickMinutes == 20
LongTtl == 60
PathK == <<"k">>
PathKX == <<"k", "x">>
\* The set(path, value) calls of SpecPersist without the persist flag.
PersistInputs == {<<PathK, Num("1")>>, <<PathK, Num("2")>>, <<PathKX, Num("1")>>}
PersistSet == \E inp \in PersistInputs : Set(inp[1], inp[2], FALSE, 0) /\ UNCHANGED <<hist, window_ddm, held>>
PersistSetAndPersist == Set(PathK, Num("1"), TRUE, LongTtl) /\ UNCHANGED <<hist, window_ddm, held>>
PersistErase == Erase(PathK) /\ UNCHANGED <<hist, window_ddm, held>>
PersistPersist ==
    \E ttl \in {0, LongTtl} : Persist(PathK, ttl) /\ UNCHANGED <<hist, window_ddm, held>>
PersistUnpersist == Unpersist(PathK) /\ UNCHANGED <<hist, window_ddm, held>>
PersistTick ==
    /\ now < MaxTicks * TickMinutes * MsPerMinute
    /\ Tick(TickMinutes)
    /\ UNCHANGED <<hist, window_ddm, held>>
PersistReload == Reload /\ UNCHANGED <<hist, window_ddm, held>>
NextPersist ==
    \/ PersistSet
    \/ PersistSetAndPersist
    \/ PersistErase
    \/ PersistPersist
    \/ PersistUnpersist
    \/ PersistTick
    \/ PersistReload
SpecPersist == Init /\ [][NextPersist]_vars

\* Changes of path are written to the store: its two persistence listeners
\* are registered and its TTL is tracked.
LivePersisted(listenerSet, table, path) ==
    /\ path \in DOMAIN table
    /\ \A p \in {path, Append(path, "**")} :
           /\ p \in DOMAIN listenerSet
           /\ \E i \in 1..Len(listenerSet[p]) : listenerSet[p][i].handler = Writer(path)

\* C8 as stated: when k holds a value and the last persist(k, ttl) call gave
\* 60 minutes, a reload (here always less than 60 minutes after the first
\* call of the run) yields a tree in which k holds that value, and k is
\* live-persisted again.
C8_Original ==
    [][op'.name = "reload" /\ has(dd, PathK)
          /\ PathK \in DOMAIN pathsToPersist /\ pathsToPersist[PathK] = LongTtl =>
              /\ get(dd', PathK) = get(dd, PathK)
              /\ LivePersisted(persistenceListeners', pathsToPersist', PathK)]_vars

\* C9 as stated: a persist(path, ttl) call with a TTL above 0 made while a
\* value exists at path leaves that value and the expiry now + ttl minutes
\* in the store.
C9_Original ==
    [][op'.name = "persist" /\ op'.n > 0 /\ has(dd, op'.path) =>
          /\ op'.path \in DOMAIN storage'.val
          /\ storage'.val[op'.path] = JsonStringify(getObjectAtPath(op'.path, dd))
          /\ op'.path \in DOMAIN storage'.exp
          /\ storage'.exp[op'.path] = now + op'.n * MsPerMinute]_vars

\* C10 as stated: when the TTL of k is 0, a reload restores no value at k.
C10_Original ==
    [][op'.name = "reload" /\ PathK \in DOMAIN pathsToPersist /\ pathsToPersist[PathK] = 0 =>
          ~has(dd', PathK)]_vars

\* The store holds neither the value key nor the expiry key of path.
NotStored(stor, path) == path \notin DOMAIN stor.val /\ path \notin DOMAIN stor.exp

\* Neither path nor path.** has persistence listeners.
NotListening(listenerSet, path) ==
    path \notin DOMAIN listenerSet /\ Append(path, "**") \notin DOMAIN listenerSet

\* C11: after unpersist(path) the store holds neither key of path and both
\* persistence listener registrations of path are gone; and while they are
\* gone no set or erase at or below path writes an entry for path.
C11_UnpersistStopsWrites ==
    [][/\ (op'.name = "unpersist" =>
              NotStored(storage', op'.path) /\ NotListening(persistenceListeners', op'.path))
       /\ (op'.name \in {"set", "erase"} /\ NotListening(persistenceListeners', PathK) =>
              /\ (PathK \in DOMAIN storage'.val) = (PathK \in DOMAIN storage.val)
              /\ NotStored(storage, PathK) => NotStored(storage', PathK))]_vars

\* C11's case: k was persisted and unpersisted, and a later set below k that
\* changed the tree left the store without an entry for k.
C11_Witness ==
    /\ op.name = "set" /\ op.path = PathKX
    /\ PathK \in DOMAIN pathsToPersist
    /\ NotListening(persistenceListeners, PathK)
    /\ getObjectAtPath(PathKX, prev_dd) # getObjectAtPath(PathKX, dd)
    /\ NotStored(storage, PathK)

\* C18: erase also unpersists.  After erase of a path that held a value the
\* store holds no entry for the path and none for a path underneath it.
C18_Original ==
    [][op'.name = "erase" /\ has(dd, op'.path) =>
          NotStored(storage', op'.path) /\ NotStored(storage', Append(op'.path, "x"))]_vars

(***************************************************************************)
(* SpecThrow: handlers that throw.  Two change listeners on "a" and two    *)
(* event listeners on evtA, drawn from a quiet handler, one that throws an *)
(* Error and one that throws null; "a" is set, erased and patched by the   *)
(* payload of evtA.                                                        *)
(***************************************************************************)
MaxThrowListeners == 2
MaxThrowEvents == 2
ThrowSpecHandlers == {"h1", "h3", "h4"}
APatch == Obj(<<Pair("a", Num("3"))>>)
ThrowChange ==
    \E fn \in ThrowSpecHandlers :
        /\ RecordCount(propertyListeners) < MaxThrowListeners
        /\ Change(PathA, TRUE, fn)
        /\ UNCHANGED <<hist, window_ddm, held>>
ThrowListen ==
    \E fn \in ThrowSpecHandlers :
        /\ RecordCount(eventListeners) < MaxThrowListeners
        /\ Listen(<<EvtA>>, FALSE, FALSE, fn)
        /\ UNCHANGED <<hist, window_ddm, held>>
ThrowSet == Set(PathA, Num("1"), FALSE, 0) /\ UNCHANGED <<hist, window_ddm, held>>
ThrowErase == Erase(PathA) /\ UNCHANGED <<hist, window_ddm, held>>
ThrowTrigger ==
    \E payload \in {NoPayload, Payload(0, APatch)} :
        /\ Len(events) < MaxThrowEvents
        /\ Trigger(EvtA, payload)
        /\ UNCHANGED <<hist, window_ddm, held>>
NextThrow == ThrowChange \/ ThrowListen \/ ThrowSet \/ ThrowErase \/ ThrowTrigger
SpecThrow == Init /\ [][NextThrow]_vars

\* The handlers the calls f made through registry reg.
HandlersIn(reg, f) == {f[i].handler : i \in {j \in 1..Len(f) : f[j].reg = reg}}

\* The records of pattern pat whose handler the calls f reached through reg.
CalledThrough(reg, pat, f) ==
    {f[i].idx : i \in {j \in 1..Len(f) : f[j].reg = reg /\ f[j].pat = pat}}

\* Every change listener record of "a" that is not fire-once is called.
AllChangeHandlersCalled ==
    getObjectAtPath(PathA, dd) # getObjectAtPath(PathA, dd')
        => LiveRecords(propertyListeners, PathA) \subseteq CalledThrough("property", PathA, fired')

\* Every event listener record of evtA that is not fire-once, and whose
\* handler the change round did not reach, is called.
AllEventHandlersCalled ==
    \A h \in LiveRecords(eventListeners, EvtA) :
        eventListeners[EvtA][h].handler \notin HandlersIn("property", fired')
            => h \in CalledThrough("event", EvtA, fired')

\* No record of a handler that throws is marked fire-once.
ThrowersStayLive(listenerSet) ==
    \A p \in DOMAIN listenerSet : \A h \in 1..Len(listenerSet[p]) :
        Throws(listenerSet[p][h].handler) => ~listenerSet[p][h].once

\* The call returned to its caller without raising.
Returned(e) == \A i \in 1..Len(e) : e[i] # "uncaught"

\* C12: when a handler throws during the dispatch of set, erase or trigger,
\* the other matched handlers are still called, the record of the throwing
\* handler is not marked fire-once, and the call completes: it returns, the
\* mutation is applied and trigger appends its event to the log.
C12_Original ==
    [][/\ (op'.name \in {"set", "erase"} =>
              AllChangeHandlersCalled /\ Returned(errs'))
       /\ (op'.name = "set" => getObjectAtPath(PathA, dd') = op'.value)
       /\ (op'.name = "trigger" =>
              /\ (isObject(op'.value) => AllChangeHandlersCalled)
              /\ AllEventHandlersCalled
              /\ Returned(errs')
              /\ Len(events') = Len(events) + 1
              /\ (isObject(op'.value) => getObjectAtPath(PathA, dd') = Num("3")))
       /\ ThrowersStayLive(propertyListeners')
       /\ ThrowersStayLive(eventListeners')]_vars

\* The same statement for calls in which no handler throws null.
ThrownErrorsIsolated ==
    [][(\A i \in 1..Len(fired') : ~handleErrorRaises(fired'[i].handler)) =>
       /\ (op'.name \in {"set", "erase"} =>
              AllChangeHandlersCalled /\ Returned(errs'))
       /\ (op'.name = "set" => getObjectAtPath(PathA, dd') = op'.value)
       /\ (op'.name = "trigger" =>
              /\ (isObject(op'.value) => AllChangeHandlersCalled)
              /\ AllEventHandlersCalled
              /\ Returned(errs')
              /\ Len(events') = Len(events) + 1
              /\ (isObject(op'.value) => getObjectAtPath(PathA, dd') = Num("3")))
       /\ ThrowersStayLive(propertyListeners')
       /\ ThrowersStayLive(eventListeners')]_vars

\* A set whose first change listener threw an Error and whose second ran.
ThrownErrorWitness ==
    /\ op.name = "set"
    /\ Len(fired) = 2
    /\ fired[1].handler = Handler("h3")
    /\ fired[2].handler = Handler("h1")
    /\ errs = <<"listener-changehandler">>

(***************************************************************************)
(* SpecBoot: the page before and after the engine script.  It starts with  *)
(* nothing, the mini version or the stand-in with l and e at window._ddm,  *)
(* calls listen and trigger, and the engine script runs at any moment.     *)
(***************************************************************************)
MaxBuffered == 2
MaxBootEvents == 3
MaxBootListeners == 3
BootHandlers == {"h1", "h5"}
InitBoot ==
    /\ dd = EmptyObj
    /\ prev_dd = EmptyObj
    /\ propertyListeners = NoListeners
    /\ persistenceListeners = NoListeners
    /\ eventListeners = NoListeners
    /\ pathsToPersist = [p \in {} |-> 0]
    /\ events = <<>>
    /\ storage = EmptyStorage
    /\ now = 0
    /\ op = Call("page", <<>>, Undef, "", FALSE, 0)
    /\ fired = <<>>
    /\ errs = <<>>
    /\ hist = <<>>
    /\ window_ddm \in {NoDdm, MiniStub, RichStub}
    /\ ret = Undef
    /\ held = NothingHeld
BootListen ==
    \E nm \in EventNames, replay \in BOOLEAN, fn \in BootHandlers :
        /\ Len(window_ddm.l) < MaxBuffered
        /\ RecordCount(eventListeners) < MaxBootListeners
        /\ PageListen(<<nm>>, FALSE, replay, fn)
        /\ UNCHANGED <<hist, held>>
BootTrigger ==
    \E nm \in EventNames :
        /\ Len(window_ddm.e) < MaxBuffered
        /\ Len(window_ddm.events) < MaxBuffered
        /\ Len(events) < MaxBootEvents
        /\ PageTrigger(nm, NoPayload)
        /\ UNCHANGED <<hist, held>>
BootLoad == LoadEngine /\ UNCHANGED <<hist, held>>
NextBoot == BootListen \/ BootTrigger \/ BootLoad
SpecBoot == InitBoot /\ [][NextBoot]_vars

RECURSIVE listensInCallOrder(_, _, _)
\* The registry after the listen calls l[i], l[i+1], ... made in this order.
listensInCallOrder(listenerSet, l, i) ==
    IF i > Len(l) THEN listenerSet
    ELSE listensInCallOrder(registerListen(listenerSet, l[i].names, l[i].isArrayName,
                                           Handler(l[i].fn)),
                            l, i + 1)

\* The names of the entries of a log or of a list of trigger arguments.
NamesOf(log) == [i \in 1..Len(log) |-> log[i].name]

\* C13: when the engine initialises over a stand-in that buffered listen
\* calls in l and trigger calls in e, the listen calls are replayed in the
\* order they were made, then the trigger calls in the order they were made:
\* every buffered event is in the log and was delivered to the buffered
\* listeners of its name.
C13_Original ==
    [][op'.name = "load" /\ window_ddm.kind = "rich" =>
          /\ eventListeners' = listensInCallOrder(NoListeners, window_ddm.l, 1)
          /\ NamesOf(events') = NamesOf(window_ddm.e)
          /\ \A i \in 1..Len(window_ddm.e), j \in 1..Len(window_ddm.l) :
                 window_ddm.l[j].names[1] = window_ddm.e[i].name =>
                     \E k \in 1..Len(fired') :
                         /\ fired'[k].ev = i
                         /\ fired'[k].handler = Handler(window_ddm.l[j].fn)]_vars

\* The part of C13 about the events: all are logged in order and delivered.
BufferedEventsDelivered ==
    [][op'.name = "load" /\ window_ddm.kind = "rich" =>
          /\ NamesOf(events') = NamesOf(window_ddm.e)
          /\ \A i \in 1..Len(window_ddm.e), j \in 1..Len(window_ddm.l) :
                 window_ddm.l[j].names[1] = window_ddm.e[i].name =>
                     \E k \in 1..Len(fired') :
                         /\ fired'[k].ev = i
                         /\ fired'[k].handler = Handler(window_ddm.l[j].fn)]_vars

\* C14: events triggered through the mini version before the engine loads
\* are handled once it has loaded: they are in the engine's log, and a
\* listener registered afterwards with historical replay receives them.
C14_Original ==
    [][/\ (op'.name = "load" /\ window_ddm.kind = "mini" =>
              /\ window_ddm'.kind = "engine"
              /\ NamesOf(events') = NamesOf(window_ddm.events))
       /\ (op.name = "load" /\ op'.name = "listen" /\ op'.flag =>
              /\ Returned(errs')
              /\ \A i \in 1..Len(window_ddm.events) :
                     window_ddm.events[i].name = op'.path =>
                         \E k \in 1..Len(fired') : fired'[k].ev = i)]_vars

(***************************************************************************)
(* SpecAlias: the page passes objects of its own to set and push, takes    *)
(* objects from get, and afterwards writes into the object it holds.       *)
(***************************************************************************)
PathL == <<"l">>
AliasPaths == {PathA, PathAB, PathL}
AliasValues ==
    { Obj(<<Pair("x", Num("1"))>>), Obj(<<Pair("b", Obj(<<Pair("x", Num("1"))>>))>>),
      Arr(<<Num("1")>>) }

MaxHeldLen == 2
MaxPushed == 2

\* The page writes into an object: a new property of an object, a new
\* element of an array.
written(v) ==
    IF isObject(v) THEN PutKey(v, "z", Num("9"))
    ELSE IF isArray(v) THEN Arr(Append(v.l, Num("9")))
    ELSE v

\* The locations of at that still hold an object or an array in tree.
stillLinked(at, tree) ==
    {loc \in at : LET v == getObjectAtPath(loc.path, tree)
                  IN  IF loc.idx = 0 THEN v.k \in {"map", "list"}
                      ELSE isArray(v) /\ loc.idx <= Len(v.l)}

\* set(path, v) with an object v of the page.  The value is linked at the
\* path unless it is merged into the object that is there.
AliasSet ==
    \E path \in {PathA}, v \in AliasValues :
        /\ Set(path, v, FALSE, 0)
        /\ held' = IF isObject(getObjectAtPath(path, dd)) /\ isObject(v)
                   THEN Held(v, {}, "set")
                   ELSE heldAfter(v, "arg", setObjectAtPathRef("arg"), Location(path, 0), "set")
        /\ UNCHANGED <<hist, window_ddm>>

\* push(path, v) with an object v of the page, or with an array of numbers.
AliasPush ==
    \E v \in {Obj(<<Pair("x", Num("1"))>>), Arr(<<Num("1")>>)} :
        /\ LET a == getObjectAtPath(PathL, dd)
           IN  isArray(a) => Len(a.l) < MaxPushed
        /\ Push(PathL, v)
        /\ held' = IF isArray(v) THEN Held(v, {}, "push")
                   ELSE heldAfter(v, "arg", pushRef("arg"),
                                  Location(PathL, Len(getObjectAtPath(PathL, dd').l)), "push")
        /\ UNCHANGED <<hist, window_ddm>>

\* get(path): the page holds what get returned.
AliasGet ==
    \E path \in AliasPaths :
        /\ Get(path)
        /\ held' = heldAfter(ret', "node", getRef("node"), Location(path, 0), "get")
        /\ UNCHANGED <<hist, window_ddm>>

AliasErase ==
    \E path \in {PathA, PathL} :
        /\ Erase(path)
        /\ held' = [held EXCEPT !.at = stillLinked(held.at, dd')]
        /\ UNCHANGED <<hist, window_ddm>>

\* The page writes into the object it holds; the engine is not called.  The
\* write shows wherever this object is linked.
AliasWrite ==
    /\ held.val.k \in {"map", "list"}
    /\ isArray(held.val) => Len(held.val.l) < MaxHeldLen
    /\ held' = [held EXCEPT !.val = written(held.val)]
    /\ dd' = IF held.at = {} THEN dd
             ELSE linkedAt(dd, CHOOSE loc \in held.at : TRUE, written(held.val))
    /\ op' = Call("write", <<>>, written(held.val), "", FALSE, 0)
    /\ fired' = <<>>
    /\ errs' = <<>>
    /\ ret' = Undef
    /\ UNCHANGED <<prev_dd, propertyListeners, persistenceListeners, eventListeners,
                   pathsToPersist, events, storage, now, hist, window_ddm>>

NextAlias == AliasSet \/ AliasPush \/ AliasGet \/ AliasErase \/ AliasWrite
SpecAlias == Init /\ [][NextAlias]_vars

GetWitness ==
    /\ op.name = "write"
    /\ held.via = "get"
    /\ isArray(held.val)
    /\ getObjectAtPath(PathL, dd) # held.val
    /\ written(getObjectAtPath(PathL, dd)) = held.val

(***************************************************************************)
(* SpecDeep: change listeners and event listeners on the pattern a.b.**,   *)
(* with mutations and triggers at a.b and at a.b.c.                        *)
(***************************************************************************)
MaxDeepListeners == 1
MaxDeepEvents == 2
PathABC == <<"a", "b", "c">>
DeepPattern == <<"a", "b", "**">>
DeepInputs == {PathAB, PathABC} \X {Num("1"), Num("2")}
DeepChange ==
    \E only \in BOOLEAN, fn \in Handlers :
        /\ RecordCount(propertyListeners) < MaxDeepListeners
        /\ Change(DeepPattern, only, fn)
        /\ UNCHANGED <<hist, window_ddm, held>>
DeepListen ==
    \E fn \in Handlers :
        /\ RecordCount(eventListeners) < MaxDeepListeners
        /\ Listen(<<DeepPattern>>, FALSE, FALSE, fn)
        /\ UNCHANGED <<hist, window_ddm, held>>
DeepSet == \E inp \in DeepInputs : Set(inp[1], inp[2], FALSE, 0) /\ UNCHANGED <<hist, window_ddm, held>>
DeepErase == \E path \in {PathAB, PathABC} : Erase(path) /\ UNCHANGED <<hist, window_ddm, held>>
DeepTrigger ==
    \E name \in {PathAB, PathABC} :
        /\ Len(events) < MaxDeepEvents
        /\ Trigger(name, NoPayload)
        /\ UNCHANGED <<hist, window_ddm, held>>
NextDeep == DeepChange \/ DeepListen \/ DeepSet \/ DeepErase \/ DeepTrigger
SpecDeep == Init /\ [][NextDeep]_vars

\* The value at a.b changes, the value at a.b.c changes.
ABChanges == getObjectAtPath(PathAB, dd) # getObjectAtPath(PathAB, dd')

ABCChanges == getObjectAtPath(PathABC, dd) # getObjectAtPath(PathABC, dd')

\* a.b is no map before and none after: it has no descendant.
ABStaysFlat == ~isObject(getObjectAtPath(PathAB, dd)) /\ ~isObject(getObjectAtPath(PathAB, dd'))

DeepTriggerWitness ==
    /\ op.name = "trigger" /\ op.path = PathAB
    /\ LiveRecords(eventListeners, DeepPattern) # {}
    /\ fired = <<>>

(***************************************************************************)
(* SpecPush: push into a.l, where a.l is absent, a number, a map or an     *)
(* array, and a may be null.                                               *)
(***************************************************************************)
MaxPushLen == 4
PathAL == <<"a", "l">>
PushValues == {Num("1"), Num("2"), Arr(<<Num("3"), Num("4")>>), Obj(<<Pair("x", Num("1"))>>)}
PushSetInputs == {<<PathA, Null>>, <<PathAL, Num("1")>>, <<PathAL, Obj(<<Pair("x", Num("1"))>>)>>}
PushPush ==
    \E v \in PushValues :
        /\ LET a == getObjectAtPath(PathAL, dd)
           IN  isArray(a) => Len(a.l) + (IF isArray(v) THEN Len(v.l) ELSE 1) <= MaxPushLen
        /\ Push(PathAL, v)
        /\ UNCHANGED <<hist, window_ddm, held>>
PushSet == \E inp \in PushSetInputs : Set(inp[1], inp[2], FALSE, 0) /\ UNCHANGED <<hist, window_ddm, held>>
PushErase == \E path \in {PathA, PathAL} : Erase(path) /\ UNCHANGED <<hist, window_ddm, held>>
NextPush == PushPush \/ PushSet \/ PushErase
SpecPush == Init /\ [][NextPush]_vars

PushReplacesWitness ==
    /\ op.name = "push"
    /\ isObject(get(prev_dd, PathAL))
    /\ get(dd, PathAL) = Arr(<<op.value>>)

\* push below a null node: get raises inside push, push reports the error
\* and stores nothing.
PushBelowNullWitness ==
    /\ op.name = "push"
    /\ errs = <<"push">>
    /\ getObjectAtPath(PathA, dd) = Null

(***************************************************************************)
(* SpecRound: change listeners and persistence listeners on the tree       *)
(* below a, and the dispatch rounds of set and erase.                      *)
(***************************************************************************)
MaxRoundListeners == 2
PathAC == <<"a", "c">>
RoundInputs ==
    {<<PathABC, Num("1")>>, <<PathAB, Cyclic>>, <<PathA, Null>>,
     <<PathA, Obj(<<Pair("b", Num("2")), Pair("c", Num("2"))>>)>>}
RoundPatterns == {PathA, PathABC, <<"a", "*">>, <<"a", "**">>}
RoundSet == \E inp \in RoundInputs : Set(inp[1], inp[2], FALSE, 0) /\ UNCHANGED <<hist, window_ddm, held>>
RoundErase == \E path \in {PathA, PathAB} : Erase(path) /\ UNCHANGED <<hist, window_ddm, held>>
RoundChange ==
    /\ RecordCount(propertyListeners) < MaxRoundListeners
    /\ \E path \in RoundPatterns, only \in BOOLEAN :
           Change(path, only, "h1") /\ UNCHANGED <<hist, window_ddm, held>>
RoundPersist ==
    /\ PathA \notin DOMAIN pathsToPersist
    /\ Persist(PathA, DefaultTtl)
    /\ UNCHANGED <<hist, window_ddm, held>>
NextRound == RoundSet \/ RoundErase \/ RoundChange \/ RoundPersist
SpecRound == Init /\ [][NextRound]_vars

\* The path a pattern of SpecRound listens at, its wildcard suffix left out.
RoundBase(pattern) ==
    IF pattern \in {<<"a", "*">>, <<"a", "**">>} THEN PathA ELSE pattern

\* The tree holds a value at path: reading it yields something defined.
ValueExists(tree, path) == getObjectAtPath(path, tree).k \notin {"undef", "throw"}

ChangeOnlyWitness ==
    /\ op.name = "change" /\ op.path = PathA /\ op.flag
    /\ ValueExists(dd, PathA) /\ fired = <<>>

\* C22 as stated: set(path, v) with a value v that cannot be serialised
\* leaves the tree as it was and invokes no listener.
C22_Original ==
    [][op'.name = "set" /\ op'.value = Cyclic => dd' = dd /\ fired' = <<>>]_vars

\* q is a strict descendant of p.
Below(q, p) == Len(p) < Len(q) /\ SubSeq(q, 1, Len(p)) = p

\* The step ran a dispatch round: a set, or an erase of a path that held a
\* value.
RoundRan == op'.name = "set" \/ (op'.name = "erase" /\ ValueExists(dd, op'.path))

\* The changed paths of the round that a step ran.
RoundDiff == LET d == getDifferences(prev_dd', dd') IN {d[i] : i \in 1..Len(d)}

\* The pattern pat is among the listeners found for the changed path.
MatchedThrough(listenerSet, pat, path) ==
    LET found == getListeners(path, listenerSet)
    IN  \E i \in 1..Len(found) : found[i] = pat

\* C24 as stated: in the round of a mutation whose diff holds a path p and
\* a strict descendant q of p, the change listeners matched through q are
\* invoked before those matched through p and through no descendant of p.
C24_Original ==
    [][RoundRan =>
          \A i, j \in 1..Len(fired') :
              (/\ fired'[i].reg = "property" /\ fired'[j].reg = "property"
               /\ \E p, q \in RoundDiff :
                      /\ Below(q, p)
                      /\ MatchedThrough(propertyListeners, fired'[j].pat, q)
                      /\ MatchedThrough(propertyListeners, fired'[i].pat, p)
                      /\ ~\E r \in RoundDiff :
                             Below(r, p) /\ MatchedThrough(propertyListeners, fired'[i].pat, r))
              => j < i]_vars


\* The calls of a step made through the registry reg.
CallsThrough(reg, f) == {i \in 1..Len(f) : f[i].reg = reg}

\* C25: in the round of a mutation every persistence listener matched by
\* the diff is invoked, and all of them before the first change listener of
\* the round; the store then holds the value the mutation left at the
\* persisted path, which is what a change handler reading the store finds.
C25_PersistenceFirst ==
    [][RoundRan =>
          /\ \A i \in CallsThrough("persistence", fired'), j \in CallsThrough("property", fired') :
                 i < j
          /\ \A pat \in DOMAIN persistenceListeners :
                 (\E p \in RoundDiff : MatchedThrough(persistenceListeners, pat, p)) =>
                     \A h \in 1..Len(persistenceListeners[pat]) :
                         \E i \in CallsThrough("persistence", fired') :
                             fired'[i].pat = pat /\ fired'[i].idx = h
          /\ (CallsThrough("persistence", fired') # {} =>
                 /\ PathA \in DOMAIN storage'.val
                 /\ storage'.val[PathA] = JsonStringify(getObjectAtPath(PathA, dd')))]_vars

\* A set changed the persisted a: its writer ran first, a change listener
\* after it, and the store holds the new value of a.
C25_Witness ==
    /\ op.name = "set"
    /\ CallsThrough("persistence", fired) # {}
    /\ CallsThrough("property", fired) # {}
    /\ fired[1].reg = "persistence" /\ fired[Len(fired)].reg = "property"
    /\ storage.val[PathA] = JsonStringify(getObjectAtPath(PathA, dd))
    /\ getObjectAtPath(PathA, dd) # getObjectAtPath(PathA, prev_dd)

\* C26: in the round of a mutation no listener record is invoked twice
\* through its pattern, in either registry, however many changed paths the
\* pattern matches.
C26_OncePerPattern ==
    [][RoundRan =>
          \A i, j \in 1..Len(fired') :
              (/\ fired'[i].reg = fired'[j].reg
               /\ fired'[i].pat = fired'[j].pat
               /\ fired'[i].idx = fired'[j].idx)
              => i = j]_vars

\* The changed paths of the last round for which pat is found in the
\* property registry.
MatchingChanges(pat) ==
    LET d == getDifferences(prev_dd, dd)
    IN  {i \in 1..Len(d) : MatchedThrough(propertyListeners, pat, d[i])}

\* set("a", {b: 2, c: 2}) changed a.b and a.c, both matched by a.**; the
\* listener on a.** was called once.
C26_Witness ==
    /\ op.name = "set"
    /\ Cardinality(MatchingChanges(<<"a", "**">>)) >= 2
    /\ Cardinality({i \in CallsThrough("property", fired) : fired[i].pat = <<"a", "**">>}) = 1

(***************************************************************************)
(* SpecDiff: getDifferences on pairs of trees.  The trees are snapshots,   *)
(* so they hold what JSON can hold: maps, lists, numbers and null.         *)
(***************************************************************************)
MaxDiffDepth == 2
PairBC == <<Pair("b", Num("1")), Pair("c", Num("2"))>>
PairCB == <<Pair("c", Num("2")), Pair("b", Num("1"))>>
\* The values a tree of SpecDiff holds at the key a.
DiffValues ==
    {Num("1"), Num("2"), Null, EmptyObj, Arr(<<>>), Arr(<<Num("1")>>),
     Obj(<<Pair("b", Num("1"))>>), Obj(<<Pair("b", Num("2"))>>), Obj(<<Pair("b", EmptyObj)>>),
     Obj(<<Pair("b", Null)>>), Obj(PairBC), Obj(PairCB),
     Arr(<<Obj(PairBC)>>), Arr(<<Obj(PairCB)>>)}
DiffTrees == {EmptyObj} \cup {Obj(<<Pair("a", v)>>) : v \in DiffValues}
InitDiff ==
    /\ prev_dd \in DiffTrees
    /\ dd \in DiffTrees
    /\ propertyListeners = NoListeners
    /\ persistenceListeners = NoListeners
    /\ eventListeners = NoListeners
    /\ pathsToPersist = [p \in {} |-> 0]
    /\ events = <<>>
    /\ storage = EmptyStorage
    /\ now = 0
    /\ op = Call("load", <<>>, Undef, "", FALSE, 0)
    /\ fired = <<>>
    /\ errs = <<>>
    /\ hist = <<>>
    /\ window_ddm = Engine
    /\ ret = Undef
    /\ held = NothingHeld
\* getDifferences(_prev_dd, window._dd): the array of paths it returns.
DiffCompare ==
    /\ op.name = "load"
    /\ op' = Call("getDifferences", <<>>, Undef, "", FALSE, 0)
    /\ ret' = LET d == getDifferences(prev_dd, dd) IN Arr([i \in 1..Len(d) |-> Str(d[i])])
    /\ UNCHANGED <<dd, prev_dd, propertyListeners, persistenceListeners, eventListeners,
                   pathsToPersist, events, storage, now, fired, errs, hist, window_ddm, held>>
NextDiff == DiffCompare
SpecDiff == InitDiff /\ [][NextDiff]_vars

RECURSIVE DeepEqual(_, _)
\* Deep equality: two maps are equal when they have the same keys with
\* equal values, in whatever order; two lists when they have equal elements
\* in the same order; two scalars when they are the same.
DeepEqual(x, y) ==
    /\ x.k = y.k
    /\ x.s = y.s
    /\ Len(x.l) = Len(y.l)
    /\ \A i \in 1..Len(x.l) : DeepEqual(x.l[i], y.l[i])
    /\ Keys(x) = Keys(y)
    /\ \A key \in Keys(x) : DeepEqual(Prop(x, key), Prop(y, key))

RECURSIVE PathsOf(_, _)
\* The paths of the nodes of a tree below path, to the depth n.
PathsOf(v, n) ==
    IF n = 0 \/ ~isObject(v) THEN {}
    ELSE UNION {{<<key>>} \cup {<<key>> \o p : p \in PathsOf(Prop(v, key), n - 1)} : key \in Keys(v)}

RECURSIVE At(_, _)
\* The value of a tree at a path, undefined where the path leaves the maps.
At(v, path) ==
    IF path = <<>> THEN v
    ELSE IF isObject(v) /\ HasKey(v, Head(path)) THEN At(Prop(v, Head(path)), Tail(path))
    ELSE Undef

\* The path holds a leaf of the tree x, or a map of x that y has nothing for.
LeafOrLoneMap(x, y, path) ==
    \/ At(x, path).k \notin {"undef", "map"}
    \/ isObject(At(x, path)) /\ At(y, path).k = "undef"

\* The paths getDifferences returned in the step that led to this state.
ReturnedPaths == [i \in 1..Len(ret.l) |-> ret.l[i].s]

\* The statement of C30 for the trees prev and cur and the returned paths d.
DiffCorrect(prev, cur, d) ==
    LET D == {d[i] : i \in 1..Len(d)}
    IN  /\ Cardinality(D) = Len(d)
        /\ \A p \in PathsOf(prev, MaxDiffDepth) \cup PathsOf(cur, MaxDiffDepth) :
               /\ LeafOrLoneMap(prev, cur, p) \/ LeafOrLoneMap(cur, prev, p)
               /\ ~DeepEqual(At(prev, p), At(cur, p))
               => p \in D
        /\ \A p \in D : ~DeepEqual(At(prev, p), At(cur, p))
        /\ (d = <<>>) <=> DeepEqual(prev, cur)

\* C30 as stated: getDifferences(prev, cur) has no duplicates, holds every
\* path of a leaf or of a map present in one tree only at which the trees
\* are not deep-equal, holds no path at which they are deep-equal, and is
\* empty exactly when the trees are deep-equal.
C30_Original == op.name = "getDifferences" => DiffCorrect(prev_dd, dd, ReturnedPaths)

\* The tree holds a list with a map in it.
RECURSIVE HasMapInList(_, _)
HasMapInList(v, inList) ==
    \/ inList /\ isObject(v)
    \/ \E i \in 1..Len(v.l) : HasMapInList(v.l[i], TRUE)
    \/ \E i \in 1..Len(v.m) : HasMapInList(v.m[i].val, inList)

\* The statement holds for the pairs of trees without maps inside lists,
\* whose lists JSON.stringify writes in one way only.
DiffCorrectWithoutMapsInLists ==
    /\ op.name = "getDifferences"
    /\ ~HasMapInList(prev_dd, FALSE) /\ ~HasMapInList(dd, FALSE)
    => DiffCorrect(prev_dd, dd, ReturnedPaths)

(***************************************************************************)
(* SpecEmpty: empty(path) on a tree whose value at a is set to scalars,    *)
(* maps and lists.                                                         *)
(***************************************************************************)
\* The number tokens of the model that are not whole numbers.
FractionTokens == {"1.5", "-0.5"}

\* The string tokens of the model that consist of whitespace only.
BlankTokens == {"", " ", " \t "}

\* _d.isInteger: a number that is finite and equals its floor.
isInteger(v) == v.k = "num" /\ v.s \notin FractionTokens

\* _d.isString
isString(v) == v.k = "str"

\* String.prototype.trim on the string tokens of the model.
trim(t) == IF t \in BlankTokens THEN "" ELSE IF t = " x " THEN "x" ELSE t

\* The value _d.empty returns for the object it read at the path.
emptyOf(obj) ==
    IF obj.k \in {"null", "undef"} THEN TRUE
    ELSE IF isObject(obj) THEN JsonStringify(obj) = JsonStringify(EmptyObj)
    ELSE IF isArray(obj) THEN Len(obj.l) = 0
    ELSE IF isString(obj) THEN trim(obj.s) = ""
    ELSE ~isInteger(obj)

\* _ddm.empty(path).  There is no try block: a TypeError of getObjectAtPath
\* reaches the caller.
Empty(path) ==
    LET obj == getObjectAtPath(path, dd)
    IN  /\ op' = Call("empty", path, Undef, "", FALSE, 0)
        /\ errs' = IF obj.k = "throw" THEN <<"uncaught">> ELSE <<>>
        /\ ret' = returnOr(errs', Bool(emptyOf(obj)))
        /\ fired' = <<>>
        /\ UNCHANGED <<dd, prev_dd, propertyListeners, persistenceListeners, eventListeners,
                       pathsToPersist, events, storage, now>>

EmptyValues ==
    {Null, Num("0"), Num("-1"), Num("2"), Num("1.5"), Num("-0.5"),
     Str(""), Str(" "), Str(" \t "), Str("x"), Str(" x "),
     EmptyObj, Obj(<<Pair("b", Num("0"))>>), Obj(<<Pair("b", Undef)>>),
     Arr(<<>>), Arr(<<Num("0")>>), Arr(<<Null>>), Bool(TRUE), Bool(FALSE)}
EmptyPaths == {PathA, PathAB, <<"z">>}
EmptySet == \E v \in EmptyValues : Set(PathA, v, FALSE, 0) /\ UNCHANGED <<hist, window_ddm, held>>
EmptyErase == Erase(PathA) /\ UNCHANGED <<hist, window_ddm, held>>
EmptyEmpty == \E path \in EmptyPaths : Empty(path) /\ UNCHANGED <<hist, window_ddm, held>>
NextEmpty == EmptySet \/ EmptyErase \/ EmptyEmpty
SpecEmpty == Init /\ [][NextEmpty]_vars

\* The value is null or absent, a map without properties, a list without
\* elements, or a string of whitespace only.
NothingIn(v) ==
    \/ v.k \in {"null", "undef"}
    \/ (v.k = "map" /\ v.m = <<>>)
    \/ (v.k = "list" /\ v.l = <<>>)
    \/ (v.k = "str" /\ v.s \in BlankTokens)

\* C33 as stated: empty(path) returns true exactly when the value at the
\* path is null or absent, an empty map, an empty list or a whitespace-only
\* string; for every number, whole or not, it returns false.
C33_Original ==
    op.name = "empty" /\ getObjectAtPath(op.path, dd).k # "throw"
        => ret = Bool(NothingIn(getObjectAtPath(op.path, dd)))

\* The same statement for the values that are neither a fraction nor a
\* boolean.
EmptyExceptFractionsAndBooleans ==
    op.name = "empty" /\ getObjectAtPath(op.path, dd).k \notin {"throw", "bool"}
                      /\ getObjectAtPath(op.path, dd) \notin {Num("1.5"), Num("-0.5")}
        => ret = Bool(NothingIn(getObjectAtPath(op.path, dd)))

\* empty("a") returned false for the number zero.
EmptyZeroWitness ==
    op.name = "empty" /\ getObjectAtPath(op.path, dd) = Num("0") /\ ret = Bool(FALSE)

\* empty("a") returned true for the number 1.5.
EmptyFractionWitness ==
    op.name = "empty" /\ getObjectAtPath(op.path, dd) = Num("1.5") /\ ret = Bool(TRUE)

(***************************************************************************)
(* SpecUnlisten: event listeners under evtA, evtB, the wildcard evtA.* and *)
(* the array [evtA, evtB], one change listener and one persisted path, and *)
(* unlisten of every name and handler.                                     *)
(***************************************************************************)
MaxUnlistenListeners == 3
MaxUnlistenEvents == 1
EvtAStar == <<"evtA", "*">>
UnlistenNames ==
    { [names |-> <<EvtA>>, isArrayName |-> FALSE],
      [names |-> <<EvtAStar>>, isArrayName |-> FALSE],
      [names |-> <<EvtA, EvtB>>, isArrayName |-> TRUE] }
UnlistenListen ==
    \E nm \in UnlistenNames, fn \in Handlers :
        /\ RecordCount(eventListeners) + Len(nm.names) <= MaxUnlistenListeners
        /\ Listen(nm.names, nm.isArrayName, FALSE, fn)
        /\ UNCHANGED <<hist, window_ddm, held>>
UnlistenUnlisten ==
    \E name \in {EvtA, EvtB, EvtAStar}, fn \in Handlers :
        Unlisten(name, fn) /\ UNCHANGED <<hist, window_ddm, held>>
UnlistenTrigger ==
    /\ Len(events) < MaxUnlistenEvents
    /\ Trigger(EvtA, Payload(0, APatch))
    /\ UNCHANGED <<hist, window_ddm, held>>
UnlistenChange ==
    /\ RecordCount(propertyListeners) < 1
    /\ Change(PathA, TRUE, "h1")
    /\ UNCHANGED <<hist, window_ddm, held>>
UnlistenPersist ==
    /\ PathA \notin DOMAIN pathsToPersist
    /\ Persist(PathA, DefaultTtl)
    /\ UNCHANGED <<hist, window_ddm, held>>
NextUnlisten ==
    UnlistenListen \/ UnlistenUnlisten \/ UnlistenTrigger \/ UnlistenChange \/ UnlistenPersist
SpecUnlisten == Init /\ [][NextUnlisten]_vars

\* The records of sequence s whose handler is not h, in their order.
Without(s, h) == SelectSeq(s, LAMBDA rec : rec.handler # h)

\* C34: unlisten(name, handler) removes every event listener record under
\* exactly that name whose handler is the given one and keeps the other
\* records of the name in their order; the records under every other name
\* (wildcard patterns and the other names of an array registration
\* included), the change and persistence registries, the table of persisted
\* paths, the tree, the log and the store stay as they were.
C34_UnlistenRemovesExactly ==
    [][op'.name = "unlisten" =>
          /\ DOMAIN eventListeners' = DOMAIN eventListeners
          /\ \A p \in DOMAIN eventListeners :
                 IF p = op'.path
                 THEN /\ \A i \in 1..Len(eventListeners'[p]) :
                             eventListeners'[p][i].handler # Handler(op'.fn)
                      /\ eventListeners'[p] = Without(eventListeners[p], Handler(op'.fn))
                 ELSE eventListeners'[p] = eventListeners[p]
          /\ UNCHANGED <<propertyListeners, persistenceListeners, pathsToPersist,
                         dd, prev_dd, events, storage>>]_vars

\* The name p holds a record of handler fn.
Listens(p, fn) ==
    p \in DOMAIN eventListeners
    /\ \E i \in 1..Len(eventListeners[p]) : eventListeners[p][i].handler = Handler(fn)

\* unlisten(evtA, h) took away the evtA record of an array registration of
\* h: its evtB record, which depends on both names, and the record under
\* evtA.* are still there, as is the evtA record of the other handler.
C34_Witness ==
    /\ op.name = "unlisten" /\ op.path = EvtA /\ op.fn = "h1"
    /\ ~Listens(EvtA, "h1")
    /\ Listens(EvtA, "h2")
    /\ EvtB \in DOMAIN eventListeners
    /\ \E i \in 1..Len(eventListeners[EvtB]) :
           /\ eventListeners[EvtB][i].handler = Handler("h1")
           /\ eventListeners[EvtB][i].hasDeps
    /\ events # <<>>
    /\ propertyListeners # NoListeners
    /\ PathA \in DOMAIN pathsToPersist

(***************************************************************************)
(* SpecEvents, continued: the call change makes at registration.           *)
(***************************************************************************)
\* The step is a change(path, handler) that called the handler at once and
\* got true back.
RegistrationCallReturnedTrue ==
    op'.name = "change" /\ fired' # <<>> /\ fired'[1].idx = 0 /\ fired'[1].ret

\* C35 as stated: when the call change makes at registration returns true,
\* the record just registered is marked fire-once (so that no later change
\* of the path invokes the handler).
C35_Original ==
    [][RegistrationCallReturnedTrue =>
          \E i \in 1..Len(propertyListeners'[op'.path]) :
              /\ propertyListeners'[op'.path][i].handler = Handler(op'.fn)
              /\ propertyListeners'[op'.path][i].once]_vars

(***************************************************************************)
(* SpecPersist, continued: the table of persisted paths against the        *)
(* registry of persistence listeners.                                      *)
(***************************************************************************)
\* Both persistence listeners of path, for path and for path.**, are
\* registered.
BothWritersRegistered(listenerSet, path) ==
    \A p \in {path, Append(path, "**")} :
        /\ p \in DOMAIN listenerSet
        /\ \E i \in 1..Len(listenerSet[p]) : listenerSet[p][i].handler = Writer(path)

\* C37 as stated: a path is in the table of persisted paths exactly when
\* both of its persistence listeners are registered.
C37_Original ==
    PathK \in DOMAIN pathsToPersist <=> BothWritersRegistered(persistenceListeners, PathK)

\* A listener of a path is never registered without the path being tracked.
WritersImplyTracked ==
    BothWritersRegistered(persistenceListeners, PathK) => PathK \in DOMAIN pathsToPersist

\* A persist(k) call has returned and no persistence listener of k is
\* registered: the call followed an unpersist(k).
PersistAgainWithoutWriters ==
    /\ op.name = "persist" /\ op.path = PathK
    /\ PathK \in DOMAIN pathsToPersist
    /\ PathK \notin DOMAIN persistenceListeners
    /\ Append(PathK, "**") \notin DOMAIN persistenceListeners

(***************************************************************************)
(* SpecEvents, continued: the already-invoked guard of trigger.            *)
(***************************************************************************)
\* The event listener dispatch of the step called record i of name p.
EventRecordCalled(p, i) ==
    \E c \in 1..Len(fired') :
        fired'[c].reg = "event" /\ fired'[c].pat = p /\ fired'[c].idx = i

\* Handler h has a change listener record that is marked fire-once.
HasSpentChangeRecord(h) ==
    \E p \in DOMAIN propertyListeners : \E i \in 1..Len(propertyListeners[p]) :
        propertyListeners[p][i].handler = h /\ propertyListeners[p][i].once

\* C40 as stated: in trigger(name, {dd: patch}) a record of the event's name
\* that is not fire-once and depends on no other event is called, unless
\* the change dispatch of the same call has called its handler.
C40_Original ==
    [][op'.name = "trigger" /\ isObject(op'.value) /\ op'.path \in DOMAIN eventListeners =>
          \A i \in 1..Len(eventListeners[op'.path]) :
              LET rec == eventListeners[op'.path][i]
              IN  ~rec.once /\ ~rec.hasDeps /\ CallsOf(rec.handler.fn, "property", fired') = {}
                      => EventRecordCalled(op'.path, i)]_vars

\* The same statement for the handlers without a change listener record
\* that is marked fire-once.
GuardSkipsOnlyCalledOrSpent ==
    [][op'.name = "trigger" /\ isObject(op'.value) /\ op'.path \in DOMAIN eventListeners =>
          \A i \in 1..Len(eventListeners[op'.path]) :
              LET rec == eventListeners[op'.path][i]
              IN  ~rec.once /\ ~rec.hasDeps /\ CallsOf(rec.handler.fn, "property", fired') = {}
                  /\ ~HasSpentChangeRecord(rec.handler)
                      => EventRecordCalled(op'.path, i)]_vars

\* trigger("evtB", {dd: patch}) changed user.name; the handler's change
\* record is marked fire-once and its live record under evtB depends on no
\* other event; the call invoked nothing.
SpentChangeRecordSilencesEvent ==
    /\ op.name = "trigger" /\ op.path = EvtB /\ isObject(op.value)
    /\ getObjectAtPath(UserName, prev_dd) # getObjectAtPath(UserName, dd)
    /\ HasSpentChangeRecord(Handler("h2"))
    /\ EvtB \in DOMAIN eventListeners /\ Len(eventListeners[EvtB]) = 1
    /\ eventListeners[EvtB][1].handler = Handler("h2")
    /\ ~eventListeners[EvtB][1].once /\ ~eventListeners[EvtB][1].hasDeps
    /\ fired = <<>>

(***************************************************************************)
(* SpecRestore: page loads over an external store that holds entries for   *)
(* the paths k and a: a value text or the text undefined, an expiry that   *)
(* lies ahead or has passed, either key without the other.                 *)
(***************************************************************************)
MaxRestoreTicks == 2
RestorePaths == {PathK, PathA}
\* The value texts of the store: the JSON text of 1, and the text undefined
\* that setItem makes of JSON.stringify(undefined).
RestoreTexts == {Num("1"), Undef}
RestoreExpiries == {0, DefaultTtl * MsPerMinute}
RestoreStores ==
    {[val |-> v, exp |-> e] :
        v \in UNION {[ps -> RestoreTexts] : ps \in SUBSET RestorePaths},
        e \in UNION {[ps -> RestoreExpiries] : ps \in SUBSET RestorePaths}}
InitRestore ==
    /\ dd = EmptyObj
    /\ prev_dd = EmptyObj
    /\ propertyListeners = NoListeners
    /\ persistenceListeners = NoListeners
    /\ eventListeners = NoListeners
    /\ pathsToPersist = [p \in {} |-> 0]
    /\ events = <<>>
    /\ storage \in RestoreStores
    /\ now = 0
    /\ op = Call("load", <<>>, Undef, "", FALSE, 0)
    /\ fired = <<>>
    /\ errs = <<>>
    /\ hist = <<>>
    /\ window_ddm = Engine
    /\ ret = Undef
    /\ held = NothingHeld
RestoreReload == Reload /\ UNCHANGED <<hist, window_ddm, held>>
RestoreTick ==
    /\ now < MaxRestoreTicks * TickMinutes * MsPerMinute
    /\ Tick(TickMinutes)
    /\ UNCHANGED <<hist, window_ddm, held>>
NextRestore == RestoreReload \/ RestoreTick
SpecRestore == InitRestore /\ [][NextRestore]_vars

\* The store holds a value text for p that JSON.parse accepts.
Parses(stor, p) == p \in DOMAIN stor.val /\ JsonParse(stor.val[p]).k # "throw"

\* The expiry entry of p is one to restore: its value key exists and its
\* expiry lies ahead.
ToRestore(stor, p, t) == p \in DOMAIN stor.exp /\ p \in DOMAIN stor.val /\ stor.exp[p] > t

\* The entry of p was handled as an entry of its kind is to be: restored
\* into the tree and tracked, or both of its keys deleted.  An entry to
\* restore whose text does not parse is left out of the statement.
Processed(p) ==
    IF ToRestore(storage, p, now)
    THEN Parses(storage, p) =>
             /\ getObjectAtPath(p, dd') = JsonParse(storage.val[p])
             /\ p \in DOMAIN pathsToPersist'
    ELSE p \notin DOMAIN storage'.exp /\ p \notin DOMAIN storage'.val

\* C32 as stated: a page load over any store, in any order of its keys,
\* restores every expiry entry whose value key exists and whose expiry lies
\* ahead and tracks its path, deletes both keys of every other expiry entry,
\* whatever the other entries hold, and invokes no listener and logs no
\* event.
C32_Original ==
    [][op'.name = "reload" =>
          /\ \A p \in DOMAIN storage.exp : Processed(p)
          /\ fired' = <<>>
          /\ events' = <<>>]_vars

\* The same statement for the stores in which no entry to restore holds a
\* text that does not parse.
RestoreOfParsableStore ==
    [][op'.name = "reload"
          /\ (\A q \in DOMAIN storage.exp : ToRestore(storage, q, now) => Parses(storage, q)) =>
              /\ \A p \in DOMAIN storage.exp : Processed(p)
              /\ fired' = <<>>
              /\ events' = <<>>]_vars

\* A page load restored k and a from the store.
BothRestored ==
    /\ op.name = "reload"
    /\ getObjectAtPath(PathK, dd) = Num("1") /\ getObjectAtPath(PathA, dd) = Num("1")
    /\ DOMAIN pathsToPersist = {PathK, PathA}

\* A page load ended with the expired entry of a still in the store, next
\* to the entry of k whose text is undefined.
ExpiredEntryLeft ==
    /\ op.name = "reload"
    /\ PathA \in DOMAIN storage.exp /\ storage.exp[PathA] <= now
    /\ PathK \in DOMAIN storage.val /\ storage.val[PathK] = Undef

(***************************************************************************)
(* RE-ENTRANT HANDLERS.  A handler of the caller may call the engine while *)
(* a dispatch is calling it.  The engine is synchronous: the inner call    *)
(* runs to its end on the state the outer loops are working on, and the    *)
(* outer loops go on with what they find afterwards.  The loops are        *)
(* therefore written over an engine state st that every handler call may   *)
(* change: registries are read when a loop looks at them (getListeners     *)
(* hands out the registry's own arrays), not when the call began.  seen    *)
(* and fns are the locals invokedListeners and invokedFunctions of the     *)
(* round in progress, depth the number of engine calls on the stack.       *)
(***************************************************************************)
MaxDepth == 3

EngineState(tree, prev, pl, perl, table, stor, el, log, t) ==
    [dd |-> tree, prev |-> prev, pl |-> pl, perl |-> perl, table |-> table,
     stor |-> stor, el |-> el, events |-> log, t |-> t,
     fired |-> <<>>, seen |-> {}, fns |-> {}, depth |-> 0, over |-> FALSE]

\* The engine calls a handler body makes.
CallSet(path, value) == [name |-> "set", path |-> path, value |-> value, fn |-> ""]

CallTrigger(eventName) == [name |-> "trigger", path |-> eventName, value |-> Undef, fn |-> ""]

CallUnlisten(name, fn) == [name |-> "unlisten", path |-> name, value |-> Undef, fn |-> fn]

\* The handlers that call the engine: "setsAC" sets a.c to 9; "triggersB"
\* triggers evtB when it is given evtA; "unlistensSelf" removes itself, and
\* "unlistensH1" removes the handler h1, from the name it was called
\* through.  They return nothing.
Script(fn, pat, name) ==
    IF fn = "setsAC" THEN <<CallSet(<<"a", "c">>, Num("9"))>>
    ELSE IF fn = "triggersB" /\ name = <<"evtA">> THEN <<CallTrigger(<<"evtB">>)>>
    ELSE IF fn = "unlistensSelf" THEN <<CallUnlisten(pat, fn)>>
    ELSE IF fn = "unlistensH1" THEN <<CallUnlisten(pat, "h1")>>
    ELSE <<>>

\* A handler call: as Invocation, with the name of the event delivered and
\* the number of engine calls that were on the stack below it.
NestedCall(reg, pat, idx, handler, val, name, depth) ==
    [reg |-> reg, pat |-> pat, idx |-> idx, handler |-> handler,
     ret |-> ReturnsTrue(handler), val |-> val, name |-> name, depth |-> depth]

\* _ddm.unlisten on the engine state.
RunUnlisten(st, name, fn) ==
    [st EXCEPT !.el = [p \in DOMAIN @ |->
                          IF p = name
                          THEN SelectSeq(@[p], LAMBDA rec : rec.handler # Handler(fn))
                          ELSE @[p]]]

\* A round that computes its differences anew, from _prev_dd as it is,
\* whenever it moves on to the next of them.
DifferencesFromSnapshot(st, differences) == Reverse(getDifferences(st.prev, st.dd))

\* Line 1163: the differences of a round are computed once, when it begins;
\* the loops keep that array whatever the handlers do.
DifferencesOfRound(st, differences) == differences

RECURSIVE RunCalls(_, _)
RECURSIVE Invoke(_, _, _, _, _, _, _)
RECURSIVE ListenerSetHandlers(_, _, _, _)
RECURSIVE ListenerSetPatterns(_, _, _, _)
RECURSIVE ListenerSetDifferences(_, _, _, _)
RECURSIVE TriggerHandlers(_, _, _, _)
RECURSIVE TriggerPatterns(_, _, _, _)

\* The handler of record rec is called; its body runs on the state.  The
\* locals of the calling loops are theirs again when it returns.  A body
\* that would nest deeper than MaxDepth ends the call with a RangeError.
Invoke(st, reg, pat, idx, rec, val, name) ==
    LET called == [st EXCEPT !.fired = Append(@, NestedCall(reg, pat, idx, rec.handler,
                                                            val, name, st.depth))]
        body == Script(rec.handler.fn, pat, name)
        inner == IF body = <<>> THEN called
                 ELSE IF st.depth >= MaxDepth THEN [called EXCEPT !.over = TRUE]
                 ELSE RunCalls([called EXCEPT !.depth = @ + 1], body)
    IN  [inner EXCEPT !.depth = st.depth, !.seen = st.seen, !.fns = st.fns]

\* The registry a round works on.
RegistryOf(st, reg) == IF reg = "persistence" THEN st.perl ELSE st.pl

\* The closure of persist(path) is called with data: it calls
\* _persist(path, data, _pathsToPersist[path]).
RunWriter(st, pat, idx, rec, data) ==
    LET key == rec.handler.p
        ttl == IF key \in DOMAIN st.table THEN st.table[key] ELSE DefaultTtl
    IN  [st EXCEPT !.stor = persistValue(st.stor, key, data, ttl, st.t),
                   !.fired = Append(@, NestedCall("persistence", pat, idx, rec.handler,
                                                  data, <<>>, st.depth))]

\* Lines 1192-1205: the loop over the records of one pattern, on the
\* registry's array as it is at each step.
ListenerSetHandlers(st, reg, pat, h) ==
    IF pat \notin DOMAIN RegistryOf(st, reg) \/ h > Len(RegistryOf(st, reg)[pat]) THEN st
    ELSE LET rec == RegistryOf(st, reg)[pat][h]
             called == ChangeCalled(rec, pat, st.dd)
             after == IF ~called THEN st
                      ELSE IF reg = "persistence"
                      THEN RunWriter(st, pat, h, rec, ChangeArgument(pat, st.dd))
                      ELSE Invoke(st, reg, pat, h, rec, ChangeArgument(pat, st.dd), <<>>)
             marked == [after EXCEPT
                           !.pl = IF called /\ ReturnsTrue(rec.handler)
                                  THEN [@ EXCEPT ![pat][h].once = TRUE]
                                  ELSE @,
                           !.fns = @ \cup {rec.handler}]
         IN  ListenerSetHandlers(marked, reg, pat, h + 1)

\* Lines 1184-1211: the patterns found for one difference; a pattern that
\* this round has invoked is passed over.
ListenerSetPatterns(st, reg, pats, l) ==
    IF l > Len(pats) THEN st
    ELSE IF pats[l] \in st.seen THEN ListenerSetPatterns(st, reg, pats, l + 1)
    ELSE LET after == ListenerSetHandlers(st, reg, pats[l], 1)
         IN  ListenerSetPatterns([after EXCEPT !.seen = @ \cup {pats[l]}], reg, pats, l + 1)

\* invokeChangeListeners and invokeChangeListenersForListenerSet: the loop
\* over the differences of the round (lines 1178-1212); when the round of
\* the persistence listeners is over, the round of the property listeners
\* begins with the differences between _prev_dd and the tree as they are
\* then, and the handlers of both rounds are returned.
ListenerSetDifferences(st, reg, differences, d) ==
    IF d > Len(differences)
    THEN IF reg = "persistence"
         THEN ListenerSetDifferences([st EXCEPT !.seen = {}], "property",
                                     Reverse(getDifferences(st.prev, st.dd)), 1)
         ELSE st
    ELSE LET Rest(after) ==
                 ListenerSetDifferences(after, reg, DifferencesOfRound(after, differences), d + 1)
         IN  Rest(ListenerSetPatterns(st, reg,
                                      getListeners(differences[d], RegistryOf(st, reg)), 1))

\* invokeChangeListeners: the round of the persistence listeners first.
RunChangeListeners(st) ==
    ListenerSetDifferences([st EXCEPT !.seen = {}, !.fns = {}], "persistence",
                           Reverse(getDifferences(st.prev, st.dd)), 1)

\* _ddm.set(path, value) on the engine state: snapshot, write, dispatch.
RunSet(st, path, value) ==
    RunChangeListeners([st EXCEPT !.prev = cloneObject(st.dd),
                                  !.dd = setObjectAtPath(st.dd, path, value)])

\* Lines 395-433: the loop over the records of one name, on the registry's
\* array as it is at each step; fns holds invokedHandlers.
TriggerHandlers(st, pat, h, eventName) ==
    IF h > Len(st.el[pat]) THEN st
    ELSE LET rec == st.el[pat][h]
             called == /\ rec.hasDeps => dependenciesMet(rec, eventName, st.events)
                       /\ rec.handler \notin st.fns
                       /\ ~rec.once
             after == IF called THEN Invoke(st, "event", pat, h, rec, Undef, eventName)
                      ELSE st
             marked == [after EXCEPT
                           !.el = IF called /\ ReturnsTrue(rec.handler)
                                  THEN [@ EXCEPT ![pat][h].once = TRUE]
                                  ELSE @]
         IN  TriggerHandlers(marked, pat, h + 1, eventName)

TriggerPatterns(st, pats, l, eventName) ==
    IF l > Len(pats) THEN st
    ELSE TriggerPatterns(TriggerHandlers(st, pats[l], 1, eventName), pats, l + 1, eventName)

\* _ddm.trigger(eventName, payload) on the engine state; patch is the dd
\* property of the payload.  The event is pushed when the loops are done.
RunTrigger(st, eventName, patch) ==
    LET event == [name |-> eventName, timestamp |-> st.t, ref |-> 0, dd |-> patch]
        changed == IF isObject(patch)
                   THEN RunChangeListeners([st EXCEPT
                            !.prev = cloneObject(st.dd),
                            !.dd = mergeObjects(st.dd, cloneObject(patch))])
                   ELSE [st EXCEPT !.fns = {}]
        Dispatch(from) == TriggerPatterns(from, getListeners(eventName, from.el), 1, eventName)
    IN  [Dispatch(changed) EXCEPT !.events = Append(@, event)]

\* The calls of a handler body, one after the other.
RunCalls(st, body) ==
    IF body = <<>> THEN st
    ELSE LET c == Head(body)
             after == IF c.name = "set" THEN RunSet(st, c.path, c.value)
                      ELSE IF c.name = "trigger" THEN RunTrigger(st, c.path, c.value)
                      ELSE RunUnlisten(st, c.path, c.fn)
         IN  RunCalls(after, Tail(body))

RECURSIVE ReplayHandlers(_, _, _, _, _, _)
\* Lines 601-637 of listen: the records of one pattern from the last to the
\* first; an index the array no longer has holds nothing.
ReplayHandlers(st, pat, h, handler, e, triggered) ==
    IF h = 0 THEN st
    ELSE IF h > Len(st.el[pat]) THEN ReplayHandlers(st, pat, h - 1, handler, e, triggered)
    ELSE LET rec == st.el[pat][h]
             called == /\ rec.handler = handler
                       /\ rec.hasDeps =>
                              \A d \in 1..Len(rec.dependsOn) : rec.dependsOn[d] \in triggered
                       /\ ~rec.once
             after == IF called
                      THEN Invoke(st, "event", pat, h, rec, Undef, st.events[e].name)
                      ELSE st
             marked == [after EXCEPT
                           !.el = IF called /\ ReturnsTrue(rec.handler)
                                  THEN [@ EXCEPT ![pat][h].once = TRUE]
                                  ELSE @]
         IN  ReplayHandlers(marked, pat, h - 1, handler, e, triggered)

RECURSIVE ReplayPatterns(_, _, _, _, _, _)
ReplayPatterns(st, pats, l, handler, e, triggered) ==
    IF l = 0 THEN st
    ELSE ReplayPatterns(ReplayHandlers(st, pats[l], Len(st.el[pats[l]]), handler, e, triggered),
                        pats, l - 1, handler, e, triggered)

RECURSIVE ReplayLog(_, _, _, _)
\* Lines 591-640 of listen: the loop over the log, whose length is read anew
\* at every turn.
ReplayLog(st, handler, e, triggered) ==
    IF e > Len(st.events) \/ st.over THEN st
    ELSE LET seenNow == triggered \cup {st.events[e].name}
             after == ReplayPatterns(st, getListeners(st.events[e].name, st.el),
                                     Len(getListeners(st.events[e].name, st.el)),
                                     handler, e, seenNow)
         IN  ReplayLog(after, handler, e + 1, seenNow)

\* _ddm.listen(name, invokeHandlerOnHistoricalEvents, handler) on the engine
\* state.
RunListen(st, names, isArrayName, invokeHandlerOnHistoricalEvents, fn) ==
    LET registered == [st EXCEPT !.el = registerListen(st.el, names, isArrayName, Handler(fn))]
    IN  IF invokeHandlerOnHistoricalEvents
        THEN ReplayLog(registered, Handler(fn), 1, {})
        ELSE registered

\* The engine as it stands between two calls of the page.
Standing ==
    EngineState(dd, prev_dd, propertyListeners, persistenceListeners, pathsToPersist,
                storage, eventListeners, events, now)

\* The engine after a call of the page that ended in state st and returned
\* value.  A RangeError
\* of too deep a nesting is reported as an error that reached the page.
Settle(st, call, value) ==
    /\ dd' = st.dd
    /\ prev_dd' = st.prev
    /\ propertyListeners' = st.pl
    /\ persistenceListeners' = st.perl
    /\ pathsToPersist' = st.table
    /\ storage' = st.stor
    /\ eventListeners' = st.el
    /\ events' = st.events
    /\ fired' = st.fired
    /\ errs' = IF st.over THEN <<"uncaught">> ELSE <<>>
    /\ op' = call
    /\ ret' = returnOr(errs', value)
    /\ UNCHANGED now

(***************************************************************************)
(* SpecNested: change listeners on a, a.b and a.*, among them a handler    *)
(* that sets a.c while it is called, a persisted path a, and set calls.    *)
(***************************************************************************)
MaxNestedListeners == 2
\* The change(path, true, handler) calls of SpecNested.
NestedListeners ==
    {<<PathA, "setsAC">>, << <<"a", "*">>, "setsAC">>, <<PathAB, "h1">>, << <<"a", "*">>, "h1">>}
NestedInputs ==
    {<<PathAB, Num("1")>>, <<PathA, Obj(<<Pair("b", Num("3")), Pair("d", Num("3"))>>)>>}
NestedChange ==
    /\ RecordCount(propertyListeners) < MaxNestedListeners
    /\ \E reg \in NestedListeners :
           Change(reg[1], TRUE, reg[2]) /\ UNCHANGED <<hist, window_ddm, held>>
NestedPersist ==
    /\ PathA \notin DOMAIN pathsToPersist
    /\ Persist(PathA, DefaultTtl)
    /\ UNCHANGED <<hist, window_ddm, held>>
NestedSet ==
    \E inp \in NestedInputs : \E st \in {RunSet(Standing, inp[1], inp[2])} :
        /\ Settle(st, Call("set", inp[1], inp[2], "", FALSE, 0), inp[2])
        /\ UNCHANGED <<hist, window_ddm, held>>
NestedErase == Erase(PathA) /\ UNCHANGED <<hist, window_ddm, held>>
NextNested == NestedChange \/ NestedPersist \/ NestedSet \/ NestedErase
SpecNested == Init /\ [][NextNested]_vars

\* Which record a call went through.
RecordOf(c) == <<c.reg, c.pat, c.idx>>

RecordsCalled(f) == [i \in 1..Len(f) |-> RecordOf(f[i])]

\* The calls of f that the page's own call made (depth 0), and those made
\* by the calls of handlers.
OuterCalls(f) == SelectSeq(f, LAMBDA c : c.depth = 0)

\* The calls that follow call i of f up to the next call of depth 0.
InnerCallsAfter(f, i) ==
    LET last == CHOOSE j \in i..Len(f) :
                    /\ \A k \in (i + 1)..j : f[k].depth > 0
                    /\ j = Len(f) \/ f[j + 1].depth = 0
    IN  SubSeq(f, i + 1, last)

\* The complete round of a mutation that turns tree prev into cur: the
\* persistence listeners, then the property listeners, of its differences.
CompleteRound(prev, cur) ==
    RecordsCalled(roundInvocations("persistence", persistenceListeners, prev, cur)
                  \o roundInvocations("property", propertyListeners, prev, cur))

\* The tree after M1, the set of the step, and after M2, the set of a.c the
\* handler makes.
TreeAfterM1 == setObjectAtPath(dd, op'.path, op'.value)

TreeAfterM2 == setObjectAtPath(TreeAfterM1, PathAC, Num("9"))

\* Call i of f is the first call of the handler that sets a.c.
FirstSetsAC(f, i) ==
    /\ f[i].handler = Handler("setsAC")
    /\ \A j \in 1..(i - 1) : f[j].handler # Handler("setsAC")

\* How often the handler that sets a.c was called.
SetsACCalls(f) == Cardinality({i \in 1..Len(f) : f[i].handler = Handler("setsAC")})

\* C31: when a change handler called in the round of a set M1 performs a set
\* M2, the complete round of M2 (persistence listeners, then property
\* listeners, of the differences between the tree after M1 and the tree
\* after M2) runs before the next listener of M1's round, and M1's round
\* calls exactly the records its own differences determine, although M2 has
\* replaced the snapshot: after the step the snapshot is the tree the last
\* set of a.c found, the tree after M1 or, when a.c was set again, after M2.
C31_NestedRoundThenRest ==
    [][op'.name = "set" =>
          /\ RecordsCalled(OuterCalls(fired')) = CompleteRound(cloneObject(dd), TreeAfterM1)
          /\ \A i \in 1..Len(fired') :
                 FirstSetsAC(fired', i) =>
                     /\ RecordsCalled(SelectSeq(InnerCallsAfter(fired', i),
                                                LAMBDA c : c.depth = fired'[i].depth + 1))
                            = CompleteRound(TreeAfterM1, TreeAfterM2)
                     /\ prev_dd' = IF SetsACCalls(fired') = 1 THEN TreeAfterM1 ELSE TreeAfterM2
          /\ errs' = <<>>]_vars

\* set("a.b", v) on a tree without a: the listener of a set a.c, the round
\* of that set wrote a to the store and called the listener of a.*, and
\* then the listener of a.b was called; the snapshot is the tree after M1.
C31_Witness ==
    /\ op.name = "set" /\ op.path = PathAB
    /\ Len(fired) >= 4
    /\ \E i \in 2..(Len(fired) - 2) :
           /\ fired[i].handler = Handler("setsAC") /\ fired[i].depth = 0
           /\ fired[i + 1].reg = "persistence" /\ fired[i + 1].depth = 1
           /\ \E j \in (i + 2)..Len(fired) :
                  fired[j].depth = 0 /\ fired[j].reg = "property"
    /\ getObjectAtPath(PathAC, prev_dd).k = "undef"
    /\ getObjectAtPath(PathAB, prev_dd) = op.value
    /\ getObjectAtPath(PathAC, dd) = Num("9")

(***************************************************************************)
(* SpecChain: a listener registered for the array [evtA, evtB] before any  *)
(* trigger, next to listeners of one name of which one triggers evtB when  *)
(* it is given evtA.  hist holds the handlers called so far, in the order  *)
(* of their first call.                                                     *)
(***************************************************************************)
MaxChainListeners == 4
MaxChainEvents == 3

ChainListeners == {<<EvtA, "triggersB">>, <<EvtB, "h2">>, <<EvtA, "h3">>}

RECURSIVE EverCalled(_, _)
EverCalled(h, f) ==
    IF f = <<>> THEN h
    ELSE LET fn == Head(f).handler.fn
         IN  EverCalled(IF \E i \in 1..Len(h) : h[i] = fn THEN h ELSE Append(h, fn), Tail(f))

ChainListenBoth ==
    /\ events = <<>>
    /\ RecordCount(eventListeners) + 2 <= MaxChainListeners
    /\ Listen(<<EvtA, EvtB>>, TRUE, FALSE, "h1")
    /\ UNCHANGED <<hist, window_ddm, held>>
ChainListen ==
    \E reg \in ChainListeners :
        /\ RecordCount(eventListeners) < MaxChainListeners
        /\ Listen(<<reg[1]>>, FALSE, FALSE, reg[2])
        /\ UNCHANGED <<hist, window_ddm, held>>
ChainTrigger ==
    \E eventName \in {EvtA, EvtB} : \E st \in {RunTrigger(Standing, eventName, Undef)} :
        /\ Len(events) < MaxChainEvents
        /\ Settle(st, Call("trigger", eventName, Undef, "", FALSE, 0), Undef)
        /\ hist' = EverCalled(hist, st.fired)
        /\ UNCHANGED <<window_ddm, held>>
NextChain == ChainListenBoth \/ ChainListen \/ ChainTrigger
SpecChain == Init /\ [][NextChain]_vars

\* Every name record rec depends on is in the log.
AllDependenciesLogged(rec) ==
    \A d \in 1..Len(rec.dependsOn) : isTriggered(events, rec.dependsOn[d])

WasCalled(fn) == \E i \in 1..Len(hist) : hist[i] = fn

\* C36 as stated: between two calls of the page, a record registered for an
\* array of names before any trigger whose names are all in the log has had
\* its handler called at least once, also when one of the events was
\* triggered by a handler during the dispatch of another.
C36_Original ==
    \A p \in DOMAIN eventListeners : \A i \in 1..Len(eventListeners[p]) :
        (eventListeners[p][i].hasDeps /\ AllDependenciesLogged(eventListeners[p][i]))
            => WasCalled(eventListeners[p][i].handler.fn)

\* When no registered handler triggers an event, the handler of the array
\* has been called once all its names are in the log.
DependentCalledWithoutNesting ==
    (\A p \in DOMAIN eventListeners : \A i \in 1..Len(eventListeners[p]) :
         eventListeners[p][i].handler # Handler("triggersB"))
        => C36_Original

\* No call nested deeper than MaxDepth.
ChainNestingBounded == errs = <<>>

\* trigger(evtA) ended with evtB and evtA in the log, evtB triggered by the
\* handler of evtA, and the handler of the array was never called.
DependentNeverCalled ==
    /\ op.name = "trigger" /\ op.path = EvtA
    /\ Len(events) = 2 /\ events[1].name = EvtB /\ events[2].name = EvtA
    /\ EvtA \in DOMAIN eventListeners
    /\ \E i \in 1..Len(eventListeners[EvtA]) : eventListeners[EvtA][i].hasDeps
    /\ ~WasCalled("h1")

(***************************************************************************)
(* SpecDetach: listeners of evtA of which some call unlisten, on           *)
(* themselves or on the handler h1, while trigger is calling them.         *)
(***************************************************************************)
MaxDetachListeners == 3
MaxDetachEvents == 2

DetachHandlers == {"h1", "h3", "unlistensSelf", "unlistensH1"}

DetachListen ==
    \E fn \in DetachHandlers :
        /\ RecordCount(eventListeners) < MaxDetachListeners
        /\ Listen(<<EvtA>>, FALSE, FALSE, fn)
        /\ UNCHANGED <<hist, window_ddm, held>>
DetachTrigger ==
    \E st \in {RunTrigger(Standing, EvtA, Undef)} :
        /\ Len(events) < MaxDetachEvents
        /\ Settle(st, Call("trigger", EvtA, Undef, "", FALSE, 0), Undef)
        /\ UNCHANGED <<hist, window_ddm, held>>
NextDetach == DetachListen \/ DetachTrigger
SpecDetach == Init /\ [][NextDetach]_vars

\* The handlers of the records listenerSet holds under name.
HandlersUnder(listenerSet, name) ==
    IF name \in DOMAIN listenerSet
    THEN {listenerSet[name][i].handler : i \in 1..Len(listenerSet[name])}
    ELSE {}

\* The handlers the call made called.
HandlersCalled(f) == {f[i].handler : i \in 1..Len(f)}

\* C38 as stated: when a handler calls unlisten on itself or on another
\* handler of the same name while trigger is dispatching an event, every
\* other handler that was registered for the name when the trigger began and
\* has not been removed is still called for that event.
C38_Original ==
    [][op'.name = "trigger" =>
          (HandlersUnder(eventListeners, EvtA) \cap HandlersUnder(eventListeners', EvtA))
              \subseteq HandlersCalled(fired')]_vars

\* A trigger that removes no record calls every handler of the name.
TriggerWithoutRemovalCallsAll ==
    [][(op'.name = "trigger" /\ eventListeners' = eventListeners) =>
          HandlersUnder(eventListeners, EvtA) \subseteq HandlersCalled(fired')]_vars

\* No call nested deeper than MaxDepth.
DetachNestingBounded == errs = <<>>

\* trigger(evtA) called the handler that removes itself; h1, registered
\* after it, is still registered and was not called.
RemainingHandlerSkipped ==
    /\ op.name = "trigger"
    /\ Handler("unlistensSelf") \in HandlersCalled(fired)
    /\ Handler("h1") \in HandlersUnder(eventListeners, EvtA)
    /\ Handler("h1") \notin HandlersCalled(fired)

(***************************************************************************)
(* SpecRelisten: listen with historical replay of a handler that triggers  *)
(* evtB when it is given evtA.                                              *)
(***************************************************************************)
MaxRelistenListeners == 2
MaxRelistenEvents == 2

AnyEvent == <<"*">>

RelistenNames == {AnyEvent, EvtA, EvtB}

RelistenHandlers == {"triggersB", "h1"}

RelistenListen ==
    \E name \in RelistenNames : \E fn \in RelistenHandlers : \E replay \in BOOLEAN :
        \E st \in {RunListen(Standing, <<name>>, FALSE, replay, fn)} :
            /\ RecordCount(eventListeners) < MaxRelistenListeners
            /\ Settle(st, Call("listen", name, Undef, fn, replay, 0), Undef)
            /\ UNCHANGED <<hist, window_ddm, held>>
RelistenTrigger ==
    \E eventName \in {EvtA, EvtB} : \E st \in {RunTrigger(Standing, eventName, Undef)} :
        /\ Len(events) < MaxRelistenEvents
        /\ Settle(st, Call("trigger", eventName, Undef, "", FALSE, 0), Undef)
        /\ UNCHANGED <<hist, window_ddm, held>>
NextRelisten == RelistenListen \/ RelistenTrigger
SpecRelisten == Init /\ [][NextRelisten]_vars

\* How many records of listenerSet hold the handler.
RecordsOfHandler(listenerSet, handler) ==
    Cardinality({<<p, i>> \in UNION {{p} \X (1..Len(listenerSet[p])) : p \in DOMAIN listenerSet} :
                     listenerSet[p][i].handler = handler})

\* How often the call delivered an event of the name to the handler.
Deliveries(f, handler, name) ==
    Cardinality({i \in 1..Len(f) : f[i].handler = handler /\ f[i].name = name})

\* C39 as stated: when the handler a listen call with replay registers
\* triggers a new event while it is replayed, the new event is delivered to
\* the handler exactly once by that call.  The handler has one record and
\* no evtB was logged before, so every delivery of evtB is one of a new
\* event.
C39_Original ==
    [][(/\ op'.name = "listen" /\ op'.flag
        /\ Len(events') > Len(events)
        /\ RecordsOfHandler(eventListeners', Handler(op'.fn)) = 1
        /\ ~isTriggered(events, EvtB))
          => Deliveries(fired', Handler(op'.fn), EvtB) = Len(events') - Len(events)]_vars

\* Replay under the name * of a handler that triggers nothing: one
\* delivery for every logged event.
QuietReplayDeliversLogOnce ==
    [][(/\ op'.name = "listen" /\ op'.flag /\ op'.fn = "h1" /\ op'.path = AnyEvent
        /\ RecordsOfHandler(eventListeners', Handler("h1")) = 1)
          => /\ Len(fired') = Len(events)
             /\ \A e \in 1..Len(events) : fired'[e].name = events[e].name
             /\ events' = events]_vars

\* No call nested deeper than MaxDepth: every call of the page returned.
RelistenNestingBounded == errs = <<>>

\* listen("*", true, triggersB) after evtA: evtB was triggered once and
\* delivered twice, by the trigger and then by the replay loop.
NewEventDeliveredTwice ==
    /\ op.name = "listen" /\ op.flag /\ op.fn = "triggersB" /\ op.path = AnyEvent
    /\ Len(events) = 2 /\ events[1].name = EvtA /\ events[2].name = EvtB
    /\ Len(fired) = 3
    /\ fired[1].name = EvtA /\ fired[1].depth = 0
    /\ fired[2].name = EvtB /\ fired[2].depth = 1
    /\ fired[3].name = EvtB /\ fired[3].depth = 0
====
